---------------------------- MODULE Spec2Model ----------------------------
(***************************************************************************)
(* The w-TinyLFU eviction engine of foyer-memory (eviction/lfu.rs): three  *)
(* recency-ordered segments (window, probation, protected) of handles, the *)
(* three segment weights, the two weight capacities, the count-min sketch  *)
(* of access frequencies with its step/decay counters, and per handle the  *)
(* Queue tag and the IN_EVICTION flag.                                      *)
(*                                                                         *)
(* Handles are named by tokens 1..n; 0 stands for Option::None.  A segment *)
(* (an intrusive Dlist) is the sequence of its handles from front (LRU) to *)
(* back (MRU).  Every operation of the Eviction impl is a pure operator on *)
(* an engine record, and one action applies it.                            *)
(***************************************************************************)
EXTENDS Integers, Sequences, FiniteSets, TLC

VARIABLES
    window, probation, protected,      \* Lfu::window / probation / protected
    window_weight, probation_weight, protected_weight,
    window_weight_capacity, protected_weight_capacity,
    frequencies,                       \* CMSketchU16: [row -> [column -> counter]]
    step, decay,
    queue,                             \* LfuHandle::queue, per handle
    in_eviction,                       \* BaseHandle IN_EVICTION flag, per handle
    hash, weight,                      \* BaseHandle::hash() / weight(), fixed per handle
    last,                              \* the last call: [op, token, ret, res]
    prev,                              \* the engine as it was when the last call began
    tracked,                           \* the tokens pushed and not since popped or removed
    script,                            \* the calls a scripted run still has to make
    list,                              \* a SlabLinkedList: head, tail, slab, len
    deque,                             \* the items a reference deque holds, front to back
    issued,                            \* the SlabTokens insert_node has returned so far
    cursor,                            \* SlabLinkedListIterMut::token of the live iterator
    shard,                             \* a GenericCacheShard: slab, eviction, indexer, capacity, usage
    handles,                           \* per thread and record, the live GenericCacheEntry handles
    fetches,                           \* per caller, the get it is in: its key and how far it got
    record,                            \* one Record: data, refs, flags
    pending,                           \* per thread, the call on the record it is in
    written,                           \* per flag, the value its last set_* call stored
    wiped                              \* the flags not set again since a query of another flag

vars == <<window, probation, protected, window_weight, probation_weight,
          protected_weight, window_weight_capacity, protected_weight_capacity,
          frequencies, step, decay, queue, in_eviction, hash, weight,
          last, prev, tracked, script, list, deque, issued, cursor, shard,
          handles,
          fetches, record, pending, written, wiped>>

lfuVars == <<window, probation, protected, window_weight, probation_weight,
             protected_weight, window_weight_capacity, protected_weight_capacity,
             frequencies, step, decay, queue, in_eviction, hash, weight,
             tracked, script>>

listVars == <<list, deque, issued, cursor>>

shardVars == <<shard, handles, fetches>>

flagVars == <<record, pending, written, wiped>>

-----------------------------------------------------------------------------
(* Bounds of the model *)

NumTokens == 3          \* handles of the free-running engine
MaxWeight == 2          \* handle weights are 0..MaxWeight

(* Program constants *)

CounterMax == 65535     \* u16::MAX, the counters of CMSketchU16 saturate

NoToken == 0

(* No list and no shard: the state of the variables of the components a run *)
(* does not use.                                                            *)
NoRecord == record = <<>> /\ pending = <<>> /\ written = <<>> /\ wiped = {}

NoListNoShard ==
    /\ list = <<>> /\ deque = <<>> /\ issued = {} /\ cursor = NoToken
    /\ shard = <<>> /\ handles = <<>> /\ fetches = <<>>
    /\ NoRecord

Tokens == DOMAIN weight

-----------------------------------------------------------------------------
(* Dlist: push_back / pop_front / front / remove_raw / len / iter *)

Range(s) == {s[i] : i \in 1..Len(s)}

PushBack(s, t) == Append(s, t)

Front(s) == IF s = <<>> THEN NoToken ELSE Head(s)

PopFront(s) == Tail(s)

RemoveRaw(s, t) == SelectSeq(s, LAMBDA x : x # t)

IsLinked(e, t) == t \in Range(e.window) \cup Range(e.probation) \cup Range(e.protected)

-----------------------------------------------------------------------------
(* CMSketchU16: row d of the table counts a hash in the column given by    *)
(* the d-th digit of the hash in base width, so that two hashes may share  *)
(* a column in some rows and not in others.                                *)

RECURSIVE Pow(_, _)
Pow(b, n) == IF n = 0 THEN 1 ELSE b * Pow(b, n - 1)

Width(f) == Len(f[1])

Depth(f) == Len(f)

Index(f, d, h) == ((h \div Pow(Width(f), d - 1)) % Width(f)) + 1

SketchNew(width, depth) == [d \in 1..depth |-> [i \in 1..width |-> 0]]

SketchInc(f, h) ==
    [d \in 1..Depth(f) |->
        [i \in 1..Width(f) |->
            IF i = Index(f, d, h) /\ f[d][i] < CounterMax THEN f[d][i] + 1 ELSE f[d][i]]]

SketchHalve(f) == [d \in 1..Depth(f) |-> [i \in 1..Width(f) |-> f[d][i] \div 2]]

Min(S) == CHOOSE x \in S : \A y \in S : x <= y

SketchEstimate(f, h) == Min({f[d][Index(f, d, h)] : d \in 1..Depth(f)})

-----------------------------------------------------------------------------
(* The engine as a record, and the operations of Lfu on it *)

Lfu == [window |-> window, probation |-> probation, protected |-> protected,
        window_weight |-> window_weight, probation_weight |-> probation_weight,
        protected_weight |-> protected_weight,
        frequencies |-> frequencies, step |-> step,
        queue |-> queue, in_eviction |-> in_eviction]

IncreaseQueueWeight(e, t) ==
    CASE e.queue[t] = "Window" -> [e EXCEPT !.window_weight = @ + weight[t]]
      [] e.queue[t] = "Probation" -> [e EXCEPT !.probation_weight = @ + weight[t]]
      [] e.queue[t] = "Protected" -> [e EXCEPT !.protected_weight = @ + weight[t]]

DecreaseQueueWeight(e, t) ==
    CASE e.queue[t] = "Window" -> [e EXCEPT !.window_weight = @ - weight[t]]
      [] e.queue[t] = "Probation" -> [e EXCEPT !.probation_weight = @ - weight[t]]
      [] e.queue[t] = "Protected" -> [e EXCEPT !.protected_weight = @ - weight[t]]

(* update_frequencies decaying only once step has passed decay (`>` for `>=`) *)
UpdateFrequenciesLateDecay(e, h) ==
    LET f == SketchInc(e.frequencies, h)
        s == e.step + 1
    IN  IF s > decay
        THEN [e EXCEPT !.step = s \div 2, !.frequencies = SketchHalve(f)]
        ELSE [e EXCEPT !.step = s, !.frequencies = f]

(* update_frequencies that halves the counters and leaves step as counted *)
UpdateFrequenciesKeepsStep(e, h) ==
    LET f == SketchInc(e.frequencies, h)
        s == e.step + 1
    IN  IF s >= decay
        THEN [e EXCEPT !.step = s, !.frequencies = SketchHalve(f)]
        ELSE [e EXCEPT !.step = s, !.frequencies = f]

UpdateFrequencies(e, h) ==
    LET f == SketchInc(e.frequencies, h)
        s == e.step + 1
    IN  IF s >= decay
        THEN [e EXCEPT !.step = s \div 2, !.frequencies = SketchHalve(f)]
        ELSE [e EXCEPT !.step = s, !.frequencies = f]

Estimate(e, t) == SketchEstimate(e.frequencies, hash[t])

(* Overflow taking the back (MRU) handle of `from` instead of its front *)
OverflowFromBack(e, from) ==
    LET n  == Len(e[from])
        t  == e[from][n]
        e1 == DecreaseQueueWeight([e EXCEPT ![from] = SubSeq(e[from], 1, n - 1)], t)
        e2 == [e1 EXCEPT !.queue[t] = "Probation"]
        e3 == IncreaseQueueWeight(e2, t)
    IN  [e3 EXCEPT !.probation = PushBack(e3.probation, t)]

(* A round that leaves the weight of the segment it pops from as it was *)
OverflowKeepsWeight(e, from) ==
    LET t  == Head(e[from])
        e1 == [e EXCEPT ![from] = PopFront(e[from])]
        e2 == [e1 EXCEPT !.queue[t] = "Probation"]
        e3 == IncreaseQueueWeight(e2, t)
    IN  [e3 EXCEPT !.probation = PushBack(e3.probation, t)]

(* One round of a `while weight > capacity` loop: the front handle of      *)
(* `from` leaves it and joins the back of probation.                       *)
Overflow(e, from) ==
    LET t  == Head(e[from])
        e1 == DecreaseQueueWeight([e EXCEPT ![from] = PopFront(e[from])], t)
        e2 == [e1 EXCEPT !.queue[t] = "Probation"]
        e3 == IncreaseQueueWeight(e2, t)
    IN  [e3 EXCEPT !.probation = PushBack(e3.probation, t)]

(* The window loop as an `if`: one round at most *)
WindowOverflowOnce(e) ==
    IF e.window_weight > window_weight_capacity
    THEN Overflow(e, "window")
    ELSE e

RECURSIVE WindowOverflow(_)
WindowOverflow(e) ==
    IF e.window_weight > window_weight_capacity
    THEN WindowOverflow(Overflow(e, "window"))
    ELSE e

(* The protected loop as an `if`: one round at most *)
ProtectedOverflowOnce(e) ==
    IF e.protected_weight > protected_weight_capacity
    THEN Overflow(e, "protected")
    ELSE e

RECURSIVE ProtectedOverflow(_)
ProtectedOverflow(e) ==
    IF e.protected_weight > protected_weight_capacity
    THEN ProtectedOverflow(Overflow(e, "protected"))
    ELSE e

(* push without set_in_eviction(true) *)
LfuPushNoFlag(e, t) ==
    LET e1 == [e EXCEPT !.window = PushBack(e.window, t),
                        !.queue[t] = "Window"]
        e2 == IncreaseQueueWeight(e1, t)
        e3 == UpdateFrequencies(e2, hash[t])
    IN  WindowOverflow(e3)

(* push that links the handle at the front (LRU) of window *)
LfuPushAtFront(e, t) ==
    LET e1 == [e EXCEPT !.window = <<t>> \o e.window,
                        !.in_eviction[t] = TRUE,
                        !.queue[t] = "Window"]
        e2 == IncreaseQueueWeight(e1, t)
        e3 == UpdateFrequencies(e2, hash[t])
    IN  WindowOverflow(e3)

(* push up to its loop: the handle joins the back of window *)
LfuPushLink(e, t) ==
    LET e1 == [e EXCEPT !.window = PushBack(e.window, t),
                        !.in_eviction[t] = TRUE,
                        !.queue[t] = "Window"]
        e2 == IncreaseQueueWeight(e1, t)
    IN  UpdateFrequencies(e2, hash[t])

LfuPush(e, t) == WindowOverflow(LfuPushLink(e, t))

(* Variants of the victim selection that a slip in pop() would produce:    *)
(* the comparison turned round, a tie sent to window, protected tried      *)
(* before probation, protected never tried.                                *)
PopVictimQueueHigher(e) ==
    LET w == Front(e.window)
        p == Front(e.probation)
    IN  CASE w = NoToken /\ p = NoToken ->
                IF e.protected = <<>> THEN "none" ELSE "protected"
          [] w = NoToken /\ p # NoToken -> "probation"
          [] w # NoToken /\ p = NoToken -> "window"
          [] OTHER -> IF Estimate(e, w) > Estimate(e, p) THEN "window" ELSE "probation"

PopVictimQueueTieWindow(e) ==
    LET w == Front(e.window)
        p == Front(e.probation)
    IN  CASE w = NoToken /\ p = NoToken ->
                IF e.protected = <<>> THEN "none" ELSE "protected"
          [] w = NoToken /\ p # NoToken -> "probation"
          [] w # NoToken /\ p = NoToken -> "window"
          [] OTHER -> IF Estimate(e, w) <= Estimate(e, p) THEN "window" ELSE "probation"

PopVictimQueueProtectedFirst(e) ==
    LET w == Front(e.window)
        p == Front(e.probation)
    IN  CASE w = NoToken /\ p = NoToken ->
                IF e.protected = <<>> THEN "none" ELSE "protected"
          [] w = NoToken /\ p # NoToken ->
                IF e.protected = <<>> THEN "probation" ELSE "protected"
          [] w # NoToken /\ p = NoToken -> "window"
          [] OTHER -> IF Estimate(e, w) < Estimate(e, p) THEN "window" ELSE "probation"

PopVictimQueueNoProtected(e) ==
    LET w == Front(e.window)
        p == Front(e.probation)
    IN  CASE w = NoToken /\ p = NoToken -> "none"
          [] w = NoToken /\ p # NoToken -> "probation"
          [] w # NoToken /\ p = NoToken -> "window"
          [] OTHER -> IF Estimate(e, w) < Estimate(e, p) THEN "window" ELSE "probation"

(* The segment whose front pop() takes, "none" when the engine is empty *)
PopVictimQueue(e) ==
    LET w == Front(e.window)
        p == Front(e.probation)
    IN  CASE w = NoToken /\ p = NoToken ->
                IF e.protected = <<>> THEN "none" ELSE "protected"
          [] w = NoToken /\ p # NoToken -> "probation"
          [] w # NoToken /\ p = NoToken -> "window"
          [] OTHER -> IF Estimate(e, w) < Estimate(e, p) THEN "window" ELSE "probation"

(* pop without decrease_queue_weight; pop without the reset of the tag *)
LfuPopKeepsWeight(e) ==
    LET q == PopVictimQueue(e)
    IN  IF q = "none"
        THEN [e |-> e, ret |-> NoToken]
        ELSE LET t  == Head(e[q])
                 e1 == [e EXCEPT ![q] = PopFront(e[q])]
             IN  [e |-> [e1 EXCEPT !.queue[t] = "None", !.in_eviction[t] = FALSE],
                  ret |-> t]

LfuPopKeepsTag(e) ==
    LET q == PopVictimQueue(e)
    IN  IF q = "none"
        THEN [e |-> e, ret |-> NoToken]
        ELSE LET t  == Head(e[q])
                 e1 == DecreaseQueueWeight([e EXCEPT ![q] = PopFront(e[q])], t)
             IN  [e |-> [e1 EXCEPT !.in_eviction[t] = FALSE], ret |-> t]

(* pop without set_in_eviction(false) *)
LfuPopKeepsFlag(e) ==
    LET q == PopVictimQueue(e)
    IN  IF q = "none"
        THEN [e |-> e, ret |-> NoToken]
        ELSE LET t  == Head(e[q])
                 e1 == DecreaseQueueWeight([e EXCEPT ![q] = PopFront(e[q])], t)
             IN  [e |-> [e1 EXCEPT !.queue[t] = "None"], ret |-> t]

LfuPop(e) ==
    LET q == PopVictimQueue(e)
    IN  IF q = "none"
        THEN [e |-> e, ret |-> NoToken]
        ELSE LET t  == Head(e[q])
                 e1 == DecreaseQueueWeight([e EXCEPT ![q] = PopFront(e[q])], t)
             IN  [e |-> [e1 EXCEPT !.queue[t] = "None", !.in_eviction[t] = FALSE],
                  ret |-> t]

(* release that moves a probation handle to the back of probation *)
LfuReleaseNoPromote(e, t) ==
    CASE e.queue[t] = "None" -> LfuPush(e, t)
      [] e.queue[t] = "Window" ->
            [e EXCEPT !.window = PushBack(RemoveRaw(e.window, t), t)]
      [] e.queue[t] = "Probation" ->
            [e EXCEPT !.probation = PushBack(RemoveRaw(e.probation, t), t)]
      [] e.queue[t] = "Protected" ->
            [e EXCEPT !.protected = PushBack(RemoveRaw(e.protected, t), t)]

(* release that links an untracked handle into window without counting the *)
(* access in the sketch                                                    *)
LfuReleaseUncounted(e, t) ==
    CASE e.queue[t] = "None" ->
            LET e1 == [e EXCEPT !.window = PushBack(e.window, t),
                                !.in_eviction[t] = TRUE,
                                !.queue[t] = "Window"]
            IN  WindowOverflow(IncreaseQueueWeight(e1, t))
      [] e.queue[t] = "Window" ->
            [e EXCEPT !.window = PushBack(RemoveRaw(e.window, t), t)]
      [] e.queue[t] = "Probation" ->
            LET e1 == DecreaseQueueWeight(
                          [e EXCEPT !.probation = RemoveRaw(e.probation, t)], t)
                e2 == [e1 EXCEPT !.queue[t] = "Protected"]
                e3 == IncreaseQueueWeight(e2, t)
                e4 == [e3 EXCEPT !.protected = PushBack(e3.protected, t)]
            IN  ProtectedOverflow(e4)
      [] e.queue[t] = "Protected" ->
            [e EXCEPT !.protected = PushBack(RemoveRaw(e.protected, t), t)]

(* release that leaves a window or protected handle where it is *)
LfuReleaseKeepsPlace(e, t) ==
    CASE e.queue[t] = "None" -> LfuPush(e, t)
      [] e.queue[t] = "Window" -> e
      [] e.queue[t] = "Probation" ->
            LET e1 == DecreaseQueueWeight(
                          [e EXCEPT !.probation = RemoveRaw(e.probation, t)], t)
                e2 == [e1 EXCEPT !.queue[t] = "Protected"]
                e3 == IncreaseQueueWeight(e2, t)
                e4 == [e3 EXCEPT !.protected = PushBack(e3.protected, t)]
            IN  ProtectedOverflow(e4)
      [] e.queue[t] = "Protected" -> e

(* release that promotes a probation handle to the front (LRU) of protected *)
LfuReleasePromoteToFront(e, t) ==
    CASE e.queue[t] = "None" -> LfuPush(e, t)
      [] e.queue[t] = "Window" ->
            [e EXCEPT !.window = PushBack(RemoveRaw(e.window, t), t)]
      [] e.queue[t] = "Probation" ->
            LET e1 == DecreaseQueueWeight(
                          [e EXCEPT !.probation = RemoveRaw(e.probation, t)], t)
                e2 == [e1 EXCEPT !.queue[t] = "Protected"]
                e3 == IncreaseQueueWeight(e2, t)
                e4 == [e3 EXCEPT !.protected = <<t>> \o e3.protected]
            IN  ProtectedOverflow(e4)
      [] e.queue[t] = "Protected" ->
            [e EXCEPT !.protected = PushBack(RemoveRaw(e.protected, t), t)]

(* release of a probation handle up to its loop: the handle joins the back *)
(* of protected                                                            *)
LfuPromote(e, t) ==
    LET e1 == DecreaseQueueWeight(
                  [e EXCEPT !.probation = RemoveRaw(e.probation, t)], t)
        e2 == [e1 EXCEPT !.queue[t] = "Protected"]
        e3 == IncreaseQueueWeight(e2, t)
    IN  [e3 EXCEPT !.protected = PushBack(e3.protected, t)]

LfuRelease(e, t) ==
    CASE e.queue[t] = "None" -> LfuPush(e, t)
      [] e.queue[t] = "Window" ->
            [e EXCEPT !.window = PushBack(RemoveRaw(e.window, t), t)]
      [] e.queue[t] = "Probation" -> ProtectedOverflow(LfuPromote(e, t))
      [] e.queue[t] = "Protected" ->
            [e EXCEPT !.protected = PushBack(RemoveRaw(e.protected, t), t)]

(* acquire that also repositions the handle, as release does *)
LfuAcquireRepositions(e, t) == UpdateFrequencies(LfuRelease(e, t), hash[t])

LfuAcquire(e, t) == UpdateFrequencies(e, hash[t])

(* remove without decrease_queue_weight *)
LfuRemoveKeepsWeight(e, t) ==
    LET e1 == CASE e.queue[t] = "Window" ->
                      [e EXCEPT !.window = RemoveRaw(e.window, t)]
                [] e.queue[t] = "Probation" ->
                      [e EXCEPT !.probation = RemoveRaw(e.probation, t)]
                [] e.queue[t] = "Protected" ->
                      [e EXCEPT !.protected = RemoveRaw(e.protected, t)]
    IN  [e1 EXCEPT !.queue[t] = "None", !.in_eviction[t] = FALSE]

(* remove without set_in_eviction(false) *)
LfuRemoveKeepsFlag(e, t) ==
    LET e1 == CASE e.queue[t] = "Window" ->
                      [e EXCEPT !.window = RemoveRaw(e.window, t)]
                [] e.queue[t] = "Probation" ->
                      [e EXCEPT !.probation = RemoveRaw(e.probation, t)]
                [] e.queue[t] = "Protected" ->
                      [e EXCEPT !.protected = RemoveRaw(e.protected, t)]
        e2 == DecreaseQueueWeight(e1, t)
    IN  [e2 EXCEPT !.queue[t] = "None"]

LfuRemove(e, t) ==
    LET e1 == CASE e.queue[t] = "Window" ->
                      [e EXCEPT !.window = RemoveRaw(e.window, t)]
                [] e.queue[t] = "Probation" ->
                      [e EXCEPT !.probation = RemoveRaw(e.probation, t)]
                [] e.queue[t] = "Protected" ->
                      [e EXCEPT !.protected = RemoveRaw(e.protected, t)]
        e2 == DecreaseQueueWeight(e1, t)
    IN  [e2 EXCEPT !.queue[t] = "None", !.in_eviction[t] = FALSE]

LfuLen(e) == Len(e.window) + Len(e.probation) + Len(e.protected)

LfuIsEmpty(e) == LfuLen(e) = 0

RECURSIVE ClearLoop(_, _)
ClearLoop(e, res) ==
    IF ~LfuIsEmpty(e)
    THEN LET r == LfuPop(e) IN ClearLoop(r.e, Append(res, r.ret))
    ELSE [e |-> e, res |-> res]

(* clear with its loop as an `if`: one pop at most *)
LfuClearOnce(e) ==
    IF ~LfuIsEmpty(e)
    THEN [e |-> LfuPop(e).e, res |-> <<LfuPop(e).ret>>]
    ELSE [e |-> e, res |-> <<>>]

LfuClear(e) == ClearLoop(e, <<>>)

(* TestEviction::dump: window, probation, protected, each front to back *)
Dump(e) == e.window \o e.probation \o e.protected

-----------------------------------------------------------------------------
(* f64 arithmetic as Lfu::new uses it.  A double is sign, 53-bit mantissa  *)
(* m and shift s, standing for m * 2^-s; the mantissa is held as four      *)
(* limbs of 18 bits, lowest first, so that every product below stays       *)
(* inside the integers.  Results are rounded to 53 significant bits, ties  *)
(* to even, as the hardware rounds them.                                   *)

Limb == Pow(2, 18)

BigNorm(a) ==
    LET l2 == a[2] + (a[1] \div Limb)
        l3 == a[3] + (l2 \div Limb)
    IN  <<a[1] % Limb, l2 % Limb, l3 % Limb, a[4] + (l3 \div Limb)>>

BigMulSmall(a, k) == BigNorm([i \in 1..4 |-> a[i] * k])

BigAdd(a, b) == BigNorm([i \in 1..4 |-> a[i] + b[i]])

BigLess(a, b) ==
    \E i \in 1..4 : a[i] < b[i] /\ \A j \in (i + 1)..4 : a[j] = b[j]

RECURSIVE BitLen(_)
BitLen(n) == IF n = 0 THEN 0 ELSE 1 + BitLen(n \div 2)

BigBitLen(a) ==
    CASE a[4] > 0 -> 54 + BitLen(a[4])
      [] a[4] = 0 /\ a[3] > 0 -> 36 + BitLen(a[3])
      [] a[4] = 0 /\ a[3] = 0 /\ a[2] > 0 -> 18 + BitLen(a[2])
      [] OTHER -> BitLen(a[1])

(* The nearest number of 53 significant bits, ties to even *)
RoundToF64(a) ==
    LET len  == BigBitLen(a)
        unit == Pow(2, IF len > 53 THEN len - 53 ELSE 0)
        rem  == a[1] % unit
        odd  == (a[1] \div unit) % 2 = 1
        low  == <<a[1] - rem, a[2], a[3], a[4]>>
    IN  IF unit > 1 /\ (2 * rem > unit \/ (2 * rem = unit /\ odd))
        THEN BigAdd(low, <<unit, 0, 0, 0>>)
        ELSE low

F64(neg, m, s) == [neg |-> neg, m |-> m, s |-> s]

(* The double a decimal literal of t tenths denotes (0.1 is 0x3FB999999999999A) *)
F64Of(t) ==
    LET a == IF t < 0 THEN 0 - t ELSE t
        nines == <<104858, 157286, 104857, 0>>      \* 0x1999999999999A
        threes == <<209715, 52428, 78643, 0>>       \* 0x13333333333333
        one == <<0, 0, 65536, 0>>                   \* 0x10000000000000
    IN  CASE a = 0 -> F64(FALSE, <<0, 0, 0, 0>>, 52)
          [] a = 1 -> F64(t < 0, nines, 56)
          [] a = 2 -> F64(t < 0, nines, 55)
          [] a = 3 -> F64(t < 0, threes, 54)
          [] a = 4 -> F64(t < 0, nines, 54)
          [] a = 5 -> F64(t < 0, one, 53)
          [] a = 6 -> F64(t < 0, threes, 53)
          [] a = 7 -> F64(t < 0, <<157286, 104857, 91750, 0>>, 53)
          [] a = 8 -> F64(t < 0, nines, 53)
          [] a = 9 -> F64(t < 0, <<52429, 209715, 117964, 0>>, 53)
          [] a = 10 -> F64(t < 0, one, 52)
          [] a = 11 -> F64(t < 0, <<104858, 157286, 72089, 0>>, 52)

(* The mantissa of x taken at shift s >= x.s *)
Aligned(x, s) == BigMulSmall(x.m, Pow(2, s - x.s))

Larger(a, b) == IF a >= b THEN a ELSE b

F64Less(x, y) ==
    LET s == Larger(x.s, y.s) IN
    CASE x.neg /\ ~y.neg -> TRUE
      [] ~x.neg /\ y.neg -> FALSE
      [] ~x.neg /\ ~y.neg -> BigLess(Aligned(x, s), Aligned(y, s))
      [] OTHER -> BigLess(Aligned(y, s), Aligned(x, s))

(* x + y of two doubles that are not negative *)
F64Add(x, y) ==
    LET s == Larger(x.s, y.s)
    IN  F64(FALSE, RoundToF64(BigAdd(Aligned(x, s), Aligned(y, s))), s)

(* capacity as f64 * x: a capacity below 2^53 is itself a double *)
F64MulUsize(capacity, x) == F64(x.neg, RoundToF64(BigMulSmall(x.m, capacity)), x.s)

(* x as usize: towards zero, a negative double gives 0 *)
F64AsUsize(x) ==
    IF x.neg THEN 0 ELSE (x.m[3] + x.m[4] * Limb) \div Pow(2, x.s - 36)

-----------------------------------------------------------------------------
(* Lfu::new *)

(* The product rounded to the nearest integer (`.round()`) before the cast *)
WeightCapacityRounded(capacity, ratio) ==
    F64AsUsize(F64Add(F64MulUsize(capacity, F64Of(ratio)), F64Of(5)))

(* (capacity as f64 * ratio) as usize with the product rounded to a double *)
(* before it is cut, the ratio being the literal of `ratio` tenths         *)
WeightCapacity(capacity, ratio) == F64AsUsize(F64MulUsize(capacity, F64Of(ratio)))

(* The asserts with the sum allowed to reach 1 (`<=` for `<`) *)
ValidConfigSumUpToOne(c) ==
    LET w == F64Of(c.window_capacity_ratio)
        p == F64Of(c.protected_capacity_ratio)
    IN  /\ F64Less(F64Of(0), w) /\ F64Less(w, F64Of(10))
        /\ F64Less(F64Of(0), p) /\ F64Less(p, F64Of(10))
        /\ ~F64Less(F64Of(10), F64Add(w, p))

(* The three asserts of Lfu::new, in f64 *)
ValidConfig(c) ==
    LET w == F64Of(c.window_capacity_ratio)
        p == F64Of(c.protected_capacity_ratio)
    IN  /\ F64Less(F64Of(0), w) /\ F64Less(w, F64Of(10))
        /\ F64Less(F64Of(0), p) /\ F64Less(p, F64Of(10))
        /\ F64Less(F64Add(w, p), F64Of(10))

(* The value `Self { .. }` that Lfu::new returns *)
NewLfu(capacity, c, width, depth) ==
    [window |-> <<>>, probation |-> <<>>, protected |-> <<>>,
     window_weight |-> 0, probation_weight |-> 0, protected_weight |-> 0,
     window_weight_capacity |-> WeightCapacity(capacity, c.window_capacity_ratio),
     protected_weight_capacity |-> WeightCapacity(capacity, c.protected_capacity_ratio),
     frequencies |-> SketchNew(width, depth),
     step |-> 0,
     decay |-> width]

LfuNew(capacity, c, width, depth, hs, ws) ==
    /\ ValidConfig(c)
    /\ LET n == NewLfu(capacity, c, width, depth) IN
        /\ window = n.window /\ probation = n.probation /\ protected = n.protected
        /\ window_weight = n.window_weight
        /\ probation_weight = n.probation_weight
        /\ protected_weight = n.protected_weight
        /\ window_weight_capacity = n.window_weight_capacity
        /\ protected_weight_capacity = n.protected_weight_capacity
        /\ frequencies = n.frequencies
        /\ step = n.step
        /\ decay = n.decay
    /\ hash = hs
    /\ weight = ws
    /\ queue = [t \in DOMAIN ws |-> "None"]
    /\ in_eviction = [t \in DOMAIN ws |-> FALSE]

-----------------------------------------------------------------------------
(* Applying a call: the engine becomes e, the call is recorded in `last`   *)
(* and the engine it started from in `prev`.                               *)

NoCall == [op |-> "new", token |-> NoToken, ret |-> NoToken, res |-> <<>>]

Call(op, t, ret, res) == [op |-> op, token |-> t, ret |-> ret, res |-> res]

(* The tokens pushed (by push, or by release of an untracked token) and not *)
(* since handed back by pop or clear, or removed.                           *)
TrackedAfter(call) ==
    CASE call.op \in {"push", "release"} -> tracked \cup {call.token}
      [] call.op = "pop" -> tracked \ {call.ret}
      [] call.op = "remove" -> tracked \ {call.token}
      [] call.op = "clear" -> tracked \ Range(call.res)
      [] OTHER -> tracked

Applied(e, call) ==
    /\ window' = e.window /\ probation' = e.probation /\ protected' = e.protected
    /\ window_weight' = e.window_weight
    /\ probation_weight' = e.probation_weight
    /\ protected_weight' = e.protected_weight
    /\ frequencies' = e.frequencies /\ step' = e.step
    /\ queue' = e.queue /\ in_eviction' = e.in_eviction
    /\ last' = call
    /\ prev' = Lfu
    /\ tracked' = TrackedAfter(call)
    /\ UNCHANGED <<window_weight_capacity, protected_weight_capacity, decay,
                   hash, weight, listVars, shardVars, flagVars>>

(* The strict_assert preconditions of push and of remove *)
Untracked(t) == queue[t] = "None" /\ ~IsLinked(Lfu, t) /\ ~in_eviction[t]

Tracked(t) == queue[t] # "None" /\ IsLinked(Lfu, t) /\ in_eviction[t]

-----------------------------------------------------------------------------
(* The free-running engine: any call on any handle that meets the call's    *)
(* preconditions.  The configuration, the sketch shape and the handles'     *)
(* weights are drawn at construction.                                       *)

SketchShapes == {[width |-> 3, depth |-> 2]}

(* Handle i hashes to a value whose two lowest base-width digits are those *)
(* of i - 1 in base 2: handles share a column in one row, in both or none. *)
HashOf(i, width) == ((i - 1) % 2) + width * (((i - 1) \div 2) % 2)

(* The engines that are run: a capacity, the two ratios (in tenths) and the *)
(* weights of the handles.                                                  *)
Worlds ==
    {[capacity |-> 5,
      config |-> [window_capacity_ratio |-> 5, protected_capacity_ratio |-> 4],
      weights |-> [t \in 1..NumTokens |-> 1]],
     [capacity |-> 5,
      config |-> [window_capacity_ratio |-> 2, protected_capacity_ratio |-> 6],
      weights |-> [t \in 1..NumTokens |-> (t - 1) % (MaxWeight + 1)]],
     [capacity |-> 3,
      config |-> [window_capacity_ratio |-> 5, protected_capacity_ratio |-> 4],
      weights |-> [t \in 1..NumTokens |-> IF t = NumTokens THEN MaxWeight ELSE 1]],
     [capacity |-> 1,
      config |-> [window_capacity_ratio |-> 2, protected_capacity_ratio |-> 6],
      weights |-> [t \in 1..NumTokens |-> IF t = NumTokens THEN MaxWeight ELSE 1]]}

Init ==
    /\ \E w \in Worlds, sh \in SketchShapes :
            LfuNew(w.capacity, w.config, sh.width, sh.depth,
                   [t \in 1..NumTokens |-> HashOf(t, sh.width)], w.weights)
    /\ last = NoCall
    /\ prev = Lfu
    /\ tracked = {}
    /\ script = <<>>
    /\ NoListNoShard

Push(t) ==
    /\ Untracked(t)
    /\ Applied(LfuPush(Lfu, t), Call("push", t, NoToken, <<>>))
    /\ UNCHANGED script

Pop ==
    /\ Applied(LfuPop(Lfu).e, Call("pop", NoToken, LfuPop(Lfu).ret, <<>>))
    /\ UNCHANGED script

Release(t) ==
    /\ Applied(LfuRelease(Lfu, t), Call("release", t, NoToken, <<>>))
    /\ UNCHANGED script

Acquire(t) ==
    /\ Applied(LfuAcquire(Lfu, t), Call("acquire", t, NoToken, <<>>))
    /\ UNCHANGED script

Remove(t) ==
    /\ Tracked(t)
    /\ Applied(LfuRemove(Lfu, t), Call("remove", t, NoToken, <<>>))
    /\ UNCHANGED script

Clear ==
    /\ Applied(LfuClear(Lfu).e, Call("clear", NoToken, NoToken, LfuClear(Lfu).res))
    /\ UNCHANGED script

Next ==
    \/ \E t \in Tokens : Push(t)
    \/ Pop
    \/ \E t \in Tokens : Release(t)
    \/ \E t \in Tokens : Acquire(t)
    \/ \E t \in Tokens : Remove(t)
    \/ Clear

Spec == Init /\ [][Next]_vars

-----------------------------------------------------------------------------
(* tests::test_lfu as a scripted run: capacity 10, ratios 0.2 and 0.6,     *)
(* ptrs[i] holds data i, hash i and weight 1 and is token i + 1.  The run  *)
(* makes the test's calls in the test's order; the variant "direct" is the *)
(* ten pushes followed at once by the ten releases of lines 519-527.  At   *)
(* most one pair of keys shares its hash (a collision in the sketch).      *)

TestCapacity == 10
TestKeys == 13

TestSketch == [width |-> 16, depth |-> 2]

TestConfig == [window_capacity_ratio |-> 2, protected_capacity_ratio |-> 6]

Ptr(i) == i + 1

Data(t) == t - 1

Calls(op, keys) == [n \in 1..Len(keys) |-> [op |-> op, token |-> Ptr(keys[n])]]

Only(op) == <<[op |-> op, token |-> NoToken]>>

TestPushes == Calls("push", <<0, 1, 2, 3, 4, 5, 6, 7, 8, 9>>)

TestP0 == Only("pop") \o Only("release_ret") \o Calls("release", <<9>>)

TestReleases == Calls("release", <<3, 4, 5, 6>>) \o Calls("release", <<3, 4>>)
                \o Calls("release", <<1, 2, 7, 8>>)

TestRest == Only("pop") \o Calls("push", <<10, 11, 12>>) \o Calls("acquire", <<0>>)
            \o Only("pop") \o Only("pop") \o Only("clear")

TestScript(variant) ==
    IF variant = "test"
    THEN TestPushes \o TestP0 \o TestReleases \o TestRest
    ELSE TestPushes \o TestReleases

TestHashes ==
    {[t \in 1..TestKeys |-> Data(t)]}
    \cup {[t \in 1..TestKeys |-> IF t = j THEN Data(i) ELSE Data(t)] :
            i \in 1..TestKeys, j \in 1..TestKeys}

InitTest ==
    /\ \E hs \in TestHashes :
            LfuNew(TestCapacity, TestConfig, TestSketch.width, TestSketch.depth, hs,
                   [t \in 1..TestKeys |-> 1])
    /\ \E variant \in {"test", "direct"} : script = TestScript(variant)
    /\ NoListNoShard
    /\ last = NoCall
    /\ prev = Lfu
    /\ tracked = {}

RunCall ==
    /\ script # <<>>
    /\ script' = Tail(script)
    /\ LET c == Head(script) IN
        \/ /\ c.op = "push"
           /\ Untracked(c.token)
           /\ Applied(LfuPush(Lfu, c.token), Call("push", c.token, NoToken, <<>>))
        \/ /\ c.op = "pop"
           /\ Applied(LfuPop(Lfu).e, Call("pop", NoToken, LfuPop(Lfu).ret, <<>>))
        \/ /\ c.op = "release"
           /\ Applied(LfuRelease(Lfu, c.token), Call("release", c.token, NoToken, <<>>))
        \/ /\ c.op = "release_ret"
           /\ last.ret # NoToken
           /\ Applied(LfuRelease(Lfu, last.ret), Call("release", last.ret, NoToken, <<>>))
        \/ /\ c.op = "acquire"
           /\ Applied(LfuAcquire(Lfu, c.token), Call("acquire", c.token, NoToken, <<>>))
        \/ /\ c.op = "clear"
           /\ Applied(LfuClear(Lfu).e,
                      Call("clear", NoToken, NoToken, LfuClear(Lfu).res))

NextTest == RunCall

SpecTest == InitTest /\ [][NextTest]_vars

-----------------------------------------------------------------------------
(* Construction on its own: Lfu::new(capacity, config) is called once on   *)
(* memory that holds no engine yet, with any capacity up to MaxCapacity    *)
(* and any pair of ratios from -0.1 to 1.1.  The call either returns the   *)
(* engine or panics in one of its asserts and leaves the memory as it was. *)

MaxCapacity == 90

NewCapacities == 0..MaxCapacity

Ratios == -1..11

NewCalls ==
    {[op |-> "new", capacity |-> cap,
      config |-> [window_capacity_ratio |-> w, protected_capacity_ratio |-> p]] :
        cap \in NewCapacities, w \in Ratios, p \in Ratios}

Unbuilt == [op |-> "none", token |-> NoToken, ret |-> NoToken, res |-> <<>>]

(* Memory that holds no Lfu *)
NoLfu ==
    /\ window = <<NoToken>> /\ probation = <<NoToken>> /\ protected = <<NoToken>>
    /\ window_weight = -1 /\ probation_weight = -1 /\ protected_weight = -1
    /\ window_weight_capacity = -1 /\ protected_weight_capacity = -1
    /\ frequencies = <<>>
    /\ step = -1
    /\ decay = -1
    /\ hash = <<>> /\ weight = <<>> /\ queue = <<>> /\ in_eviction = <<>>
    /\ tracked = {}

InitNew ==
    /\ NoLfu
    /\ last = Unbuilt
    /\ prev = Lfu
    /\ \E c \in NewCalls : script = <<c>>
    /\ NoListNoShard

NewReturns ==
    /\ script # <<>>
    /\ LET c == Head(script)
           n == NewLfu(c.capacity, c.config, TestSketch.width, TestSketch.depth)
       IN  /\ ValidConfig(c.config)
           /\ window' = n.window /\ probation' = n.probation /\ protected' = n.protected
           /\ window_weight' = n.window_weight
           /\ probation_weight' = n.probation_weight
           /\ protected_weight' = n.protected_weight
           /\ window_weight_capacity' = n.window_weight_capacity
           /\ protected_weight_capacity' = n.protected_weight_capacity
           /\ frequencies' = n.frequencies
           /\ step' = n.step
           /\ decay' = n.decay
           /\ last' = Call("new", NoToken, NoToken,
                           <<c.capacity, c.config.window_capacity_ratio,
                             c.config.protected_capacity_ratio>>)
    /\ script' = Tail(script)
    /\ prev' = Lfu
    /\ UNCHANGED <<hash, weight, queue, in_eviction, tracked, listVars, shardVars, flagVars>>

NewPanics ==
    /\ script # <<>>
    /\ LET c == Head(script)
       IN  /\ ~ValidConfig(c.config)
           /\ last' = Call("panic", NoToken, NoToken,
                           <<c.capacity, c.config.window_capacity_ratio,
                             c.config.protected_capacity_ratio>>)
    /\ script' = Tail(script)
    /\ prev' = Lfu
    /\ UNCHANGED <<window, probation, protected, window_weight, probation_weight,
                   protected_weight, window_weight_capacity,
                   protected_weight_capacity, frequencies, step, decay,
                   hash, weight, queue, in_eviction, tracked, listVars, shardVars, flagVars>>

NextNew == NewReturns \/ NewPanics

SpecNew == InitNew /\ [][NextNew]_vars

-----------------------------------------------------------------------------
(* SlabLinkedList (dlist.rs): a doubly linked list whose nodes live in a    *)
(* slab.  The slab is the vector of its entries, occupied by a node or      *)
(* vacant and naming the next vacant key, and the key `next` the coming     *)
(* insert will use; keys count from 0.  A SlabToken is the key with a bit   *)
(* set that makes it non-zero, so that 0 is left for Option::None: the      *)
(* model adds one where the code sets the top bit.                          *)

MaxList == 3            \* items a list holds at most
MaxData == 2            \* items are 1..MaxData

NoData == 0

FromRaw(raw) == raw + 1

ToRaw(token) == token - 1

Node(data) == [prev |-> NoToken, next |-> NoToken, data |-> data]

Occupied(node) == [occupied |-> TRUE, node |-> node, vacant |-> 0]

Vacant(key) == [occupied |-> FALSE, node |-> Node(NoData), vacant |-> key]

SlabNew == [entries |-> <<>>, next |-> 0]

(* Slab::insert: the key is `next`, a vacant entry's if there is one *)
SlabInsert(s, node) ==
    LET key == s.next IN
    IF key = Len(s.entries)
    THEN [slab |-> [entries |-> Append(s.entries, Occupied(node)), next |-> key + 1],
          key |-> key]
    ELSE [slab |-> [entries |-> [s.entries EXCEPT ![key + 1] = Occupied(node)],
                    next |-> s.entries[key + 1].vacant],
          key |-> key]

(* Slab::remove: the entry becomes the first vacant one *)
SlabRemove(s, key) ==
    [slab |-> [entries |-> [s.entries EXCEPT ![key + 1] = Vacant(s.next)], next |-> key],
     node |-> s.entries[key + 1].node]

SlabListNew == [head |-> NoToken, tail |-> NoToken, slab |-> SlabNew, len |-> 0]

InsertNode(l, node) ==
    LET r == SlabInsert(l.slab, node)
    IN  [l |-> [l EXCEPT !.slab = r.slab], token |-> FromRaw(r.key)]

GetNode(l, token) == l.slab.entries[ToRaw(token) + 1].node

RemoveNode(l, token) ==
    LET r == SlabRemove(l.slab, ToRaw(token))
    IN  [l |-> [l EXCEPT !.slab = r.slab], node |-> r.node]

SetPrev(l, token, prev_) ==
    [l EXCEPT !.slab.entries[ToRaw(token) + 1].node.prev = prev_]

SetNext(l, token, next_) ==
    [l EXCEPT !.slab.entries[ToRaw(token) + 1].node.next = next_]

(* link_between that does not set the prev link of the node that follows *)
LinkBetweenOneWay(l, token, prev_, next_) ==
    LET l1 == IF prev_ # NoToken THEN SetNext(l, prev_, token) ELSE l
    IN  SetNext(SetPrev(l1, token, prev_), token, next_)

LinkBetween(l, token, prev_, next_) ==
    LET l1 == IF prev_ # NoToken THEN SetNext(l, prev_, token) ELSE l
        l2 == IF next_ # NoToken THEN SetPrev(l1, next_, token) ELSE l1
    IN  SetNext(SetPrev(l2, token, prev_), token, next_)

LinkBefore(l, token, next_) == LinkBetween(l, token, GetNode(l, next_).prev, next_)

LinkAfter(l, token, prev_) == LinkBetween(l, token, prev_, GetNode(l, prev_).next)

(* SlabLinkedListIterMut::insert_before with the iterator on `at` *)
InsertBefore(l, at, data) ==
    LET ins == InsertNode(l, Node(data))
        new == ins.token
        l1  == IF at # NoToken
               THEN LinkBefore(ins.l, new, at)
               ELSE [LinkBetween(ins.l, new, ins.l.tail, NoToken) EXCEPT !.tail = new]
        l2  == IF l1.head = at THEN [l1 EXCEPT !.head = new] ELSE l1
    IN  [l |-> [l2 EXCEPT !.len = @ + 1], token |-> new]

(* insert_after that leaves the tail alone when the list was empty *)
InsertAfterKeepsTail(l, at, data) ==
    LET ins == InsertNode(l, Node(data))
        new == ins.token
        l1  == IF at # NoToken
               THEN LinkAfter(ins.l, new, at)
               ELSE [LinkBetween(ins.l, new, NoToken, ins.l.head) EXCEPT !.head = new]
    IN  [l |-> [l1 EXCEPT !.len = @ + 1], token |-> new]

(* SlabLinkedListIterMut::insert_after with the iterator on `at` *)
InsertAfter(l, at, data) ==
    LET ins == InsertNode(l, Node(data))
        new == ins.token
        l1  == IF at # NoToken
               THEN LinkAfter(ins.l, new, at)
               ELSE [LinkBetween(ins.l, new, NoToken, ins.l.head) EXCEPT !.head = new]
        l2  == IF l1.tail = at THEN [l1 EXCEPT !.tail = new] ELSE l1
    IN  [l |-> [l2 EXCEPT !.len = @ + 1], token |-> new]

(* remove that leaves the iterator on the node before the removed one *)
IterRemoveMovesBack(l, at) ==
    IF at = NoToken
    THEN [l |-> l, ret |-> NoData, at |-> NoToken]
    ELSE LET r     == RemoveNode(l, at)
             prev_ == r.node.prev
             next_ == r.node.next
             l1    == IF at = r.l.head THEN [r.l EXCEPT !.head = next_] ELSE r.l
             l2    == IF at = l1.tail THEN [l1 EXCEPT !.tail = prev_] ELSE l1
             l3    == IF prev_ # NoToken THEN SetNext(l2, prev_, next_) ELSE l2
             l4    == IF next_ # NoToken THEN SetPrev(l3, next_, prev_) ELSE l3
         IN  [l |-> [l4 EXCEPT !.len = @ - 1], ret |-> r.node.data, at |-> prev_]

(* SlabLinkedListIterMut::remove with the iterator on `at` *)
IterRemove(l, at) ==
    IF at = NoToken
    THEN [l |-> l, ret |-> NoData, at |-> NoToken]
    ELSE LET r     == RemoveNode(l, at)
             prev_ == r.node.prev
             next_ == r.node.next
             l1    == IF at = r.l.head THEN [r.l EXCEPT !.head = next_] ELSE r.l
             l2    == IF at = l1.tail THEN [l1 EXCEPT !.tail = prev_] ELSE l1
             l3    == IF prev_ # NoToken THEN SetNext(l2, prev_, next_) ELSE l2
             l4    == IF next_ # NoToken THEN SetPrev(l3, next_, prev_) ELSE l3
         IN  [l |-> [l4 EXCEPT !.len = @ - 1], ret |-> r.node.data, at |-> next_]

(* next that stays on the tail instead of moving to the null position *)
IterNextStopsAtTail(l, at) ==
    IF at # NoToken
    THEN IF GetNode(l, at).next = NoToken THEN at ELSE GetNode(l, at).next
    ELSE l.head

(* SlabLinkedListIterMut::next and prev *)
IterNext(l, at) == IF at # NoToken THEN GetNode(l, at).next ELSE l.head

IterPrev(l, at) == IF at # NoToken THEN GetNode(l, at).prev ELSE l.tail

ListFront(l) == IF l.head = NoToken THEN NoData ELSE GetNode(l, l.head).data

ListBack(l) == IF l.tail = NoToken THEN NoData ELSE GetNode(l, l.tail).data

ListPushFront(l, data) == InsertAfter(l, NoToken, data)

ListPushBack(l, data) == InsertBefore(l, NoToken, data)

ListPopFront(l) == IterRemove(l, IterNext(l, NoToken))

ListPopBack(l) == IterRemove(l, IterPrev(l, NoToken))

ListLen(l) == l.len

ListIsEmpty(l) == ListLen(l) = 0

(* SlabLinkedList::iter: the items from head to tail; the walk gives up     *)
(* after `fuel` nodes.                                                      *)
RECURSIVE IterFrom(_, _, _)
IterFrom(l, at, fuel) ==
    IF at = NoToken \/ fuel = 0
    THEN <<>>
    ELSE <<GetNode(l, at).data>> \o IterFrom(l, GetNode(l, at).next, fuel - 1)

ListIter(l) == IterFrom(l, l.head, Len(l.slab.entries) + 1)

(* The calls on one list, next to a deque that is given the same calls.     *)
(* `last` holds the call, the token its insert_node issued, what the list   *)
(* returned and what the deque returned.                                    *)

ListSnapshot == [list |-> list, deque |-> deque, issued |-> issued, cursor |-> cursor]

ListCalled(l, call, d) ==
    /\ list' = l
    /\ deque' = d
    /\ issued' = IF call.token = NoToken THEN issued ELSE issued \cup {call.token}
    /\ last' = call
    /\ prev' = ListSnapshot
    /\ UNCHANGED <<cursor, lfuVars, shardVars, flagVars>>

InitList ==
    /\ list = SlabListNew
    /\ deque = <<>>
    /\ issued = {}
    /\ cursor = NoToken
    /\ last = Call("new", NoToken, NoData, <<>>)
    /\ prev = ListSnapshot
    /\ NoLfu
    /\ script = <<>>
    /\ shard = <<>> /\ handles = <<>> /\ fetches = <<>>
    /\ NoRecord

PushFrontCall(data) ==
    /\ ListLen(list) < MaxList
    /\ LET r == ListPushFront(list, data)
       IN  ListCalled(r.l, Call("push_front", r.token, NoData, <<>>), <<data>> \o deque)

PushBackCall(data) ==
    /\ ListLen(list) < MaxList
    /\ LET r == ListPushBack(list, data)
       IN  ListCalled(r.l, Call("push_back", r.token, NoData, <<>>), Append(deque, data))

PopFrontCall ==
    LET r == ListPopFront(list)
    IN  IF deque = <<>>
        THEN ListCalled(r.l, Call("pop_front", NoToken, r.ret, <<NoData>>), deque)
        ELSE ListCalled(r.l, Call("pop_front", NoToken, r.ret, <<Head(deque)>>), Tail(deque))

PopBackCall ==
    LET r == ListPopBack(list)
        n == Len(deque)
    IN  IF deque = <<>>
        THEN ListCalled(r.l, Call("pop_back", NoToken, r.ret, <<NoData>>), deque)
        ELSE ListCalled(r.l, Call("pop_back", NoToken, r.ret, <<deque[n]>>),
                        SubSeq(deque, 1, n - 1))

NextList ==
    \/ \E data \in 1..MaxData : PushFrontCall(data)
    \/ \E data \in 1..MaxData : PushBackCall(data)
    \/ PopFrontCall
    \/ PopBackCall

SpecList == InitList /\ [][NextList]_vars

(* One list driven through a SlabLinkedListIterMut.  The iterator borrows   *)
(* the list mutably, so while it lives the list changes through it only;    *)
(* a call on the list itself (push, pop, remove_raw) ends it, and the next  *)
(* iterator starts from iter_mut() or iter_mut_from_raw(token).  `cursor`   *)
(* is the iterator's token, NoToken for the null position.                  *)

(* The items that are inserted *)
Items == {1, 2}

(* The tokens of the nodes the slab holds *)
LiveTokens(l) ==
    {FromRaw(k - 1) : k \in {i \in 1..Len(l.slab.entries) : l.slab.entries[i].occupied}}

(* remove_raw that removes the head of the list, whatever the token *)
ListRemoveRawHead(l, token) == IterRemove(l, l.head)

(* SlabLinkedList::remove_raw: iter_mut_from_raw(token), then remove *)
ListRemoveRaw(l, token) == IterRemove(l, token)

CursorCalled(l, at, call) ==
    /\ list' = l
    /\ cursor' = at
    /\ issued' = IF call.token = NoToken THEN issued ELSE issued \cup {call.token}
    /\ last' = call
    /\ prev' = ListSnapshot
    /\ UNCHANGED <<deque, lfuVars, shardVars, flagVars>>

IterMutCall ==
    CursorCalled(list, NoToken, Call("iter_mut", NoToken, NoData, <<>>))

IterMutFromRawCall(t) ==
    /\ t \in LiveTokens(list)
    /\ CursorCalled(list, t, Call("iter_mut_from_raw", NoToken, NoData, <<t>>))

NextCall ==
    CursorCalled(list, IterNext(list, cursor), Call("next", NoToken, NoData, <<>>))

PrevCall ==
    CursorCalled(list, IterPrev(list, cursor), Call("prev", NoToken, NoData, <<>>))

RemoveCall ==
    LET r == IterRemove(list, cursor)
    IN  CursorCalled(r.l, r.at, Call("remove", NoToken, r.ret, <<>>))

InsertBeforeCall(data) ==
    /\ ListLen(list) < MaxList
    /\ LET r == InsertBefore(list, cursor, data)
       IN  CursorCalled(r.l, cursor, Call("insert_before", r.token, NoData, <<data>>))

InsertAfterCall(data) ==
    /\ ListLen(list) < MaxList
    /\ LET r == InsertAfter(list, cursor, data)
       IN  CursorCalled(r.l, cursor, Call("insert_after", r.token, NoData, <<data>>))

RemoveRawCall(t) ==
    /\ t \in LiveTokens(list)
    /\ LET r == ListRemoveRaw(list, t)
       IN  CursorCalled(r.l, NoToken, Call("remove_raw", NoToken, r.ret, <<t>>))

PushCall(data, front) ==
    /\ ListLen(list) < MaxList
    /\ LET r == IF front THEN ListPushFront(list, data) ELSE ListPushBack(list, data)
       IN  CursorCalled(r.l, NoToken,
                        Call(IF front THEN "push_front" ELSE "push_back",
                             r.token, NoData, <<data>>))

PopCall(front) ==
    LET r == IF front THEN ListPopFront(list) ELSE ListPopBack(list)
    IN  CursorCalled(r.l, NoToken,
                     Call(IF front THEN "pop_front" ELSE "pop_back", NoToken, r.ret, <<>>))

NextCursor ==
    \/ IterMutCall
    \/ \E t \in 1..MaxList : IterMutFromRawCall(t)
    \/ NextCall
    \/ PrevCall
    \/ RemoveCall
    \/ \E data \in Items : InsertBeforeCall(data)
    \/ \E data \in Items : InsertAfterCall(data)
    \/ \E t \in 1..MaxList : RemoveRawCall(t)
    \/ \E data \in Items, front \in BOOLEAN : PushCall(data, front)
    \/ \E front \in BOOLEAN : PopCall(front)

SpecCursor == InitList /\ [][NextCursor]_vars

-----------------------------------------------------------------------------
(* GenericCacheShard (generic.rs) and its Records (record.rs).  A record    *)
(* is its refs counter, its flags word (the set of the bits that are set),  *)
(* its weight and whether its slot is occupied; a record's token is its     *)
(* slot.  The shard is the slab of records, the tokens its eviction engine  *)
(* tracks in the order it will pop them, the tokens its indexer maps to,    *)
(* capacity and usage.  Entry handles are counted per thread and record.    *)

MaxRefs == 3            \* handles of one record at most

Records == {1, 2}

Threads == {1, 2}

RecordNew(w) == [occupied |-> TRUE, refs |-> 0, flags |-> {}, weight |-> w]

(* set_flags as a store of the bits: the other flags are lost *)
SetFlagsStore(word, flag, val) == IF val THEN {flag} ELSE {}

(* Record::set_flags: fetch_or(bits) or fetch_and(!bits) *)
SetFlags(word, flag, val) == IF val THEN word \cup {flag} ELSE word \ {flag}

(* Record::get_flags: fetch_and(bits) stores word & bits and returns the    *)
(* word as it was, which is compared with 0                                 *)
GetFlags(word, flag) == [word |-> word \cap {flag}, ret |-> word # {}]

(* Eviction::pop of the shard's engine: the token the engine gives up, its  *)
(* IN_EVICTION flag cleared; None when the engine tracks nothing.           *)
EnginePop(s) ==
    IF s.eviction = <<>>
    THEN [s |-> s, ret |-> NoToken]
    ELSE LET t == Head(s.eviction)
         IN  [s |-> [s EXCEPT !.eviction = Tail(@),
                              !.slab[t].flags = SetFlags(@, "IN_EVICTION", FALSE)],
              ret |-> t]

(* GenericCacheShard::evict: `release` is computed and nothing is done with it *)
RECURSIVE EvictLoop(_, _, _)
EvictLoop(s, w, popped) ==
    IF s.usage + w > s.capacity
    THEN LET p == EnginePop(s) IN
         IF p.ret = NoToken
         THEN [s |-> p.s, popped |-> popped]
         ELSE EvictLoop(p.s, w, Append(popped, p.ret))
    ELSE [s |-> s, popped |-> popped]

ShardEvict(s, w) == EvictLoop(s, w, <<>>)

(* GenericCacheShard::release: the assert on refs, the two flag tests of the *)
(* deposit branch, whose body is commented out, then todo!().  `deposit`    *)
(* tells whether the branch was entered.                                    *)
ShardRelease(s, t) ==
    IF s.slab[t].refs # 0
    THEN [s |-> s, panic |-> "assert_eq", deposit |-> FALSE]
    ELSE LET a == GetFlags(s.slab[t].flags, "IN_INDEXER")
             b == IF a.ret THEN GetFlags(a.word, "DEPOSIT") ELSE [word |-> a.word, ret |-> FALSE]
         IN  [s |-> [s EXCEPT !.slab[t].flags = b.word], panic |-> "todo",
              deposit |-> a.ret /\ b.ret]

(* Clone for GenericCacheEntry that copies the pointer without counting *)
EntryCloneUncounted(s, t) == [s |-> s, fetched |-> s.slab[t].refs]

(* Clone for GenericCacheEntry: refs.fetch_add(1) *)
EntryClone(s, t) ==
    [s |-> [s EXCEPT !.slab[t].refs = @ + 1], fetched |-> s.slab[t].refs]

(* Drop for GenericCacheEntry: refs.fetch_sub(1), todo!() if it returned 0. *)
(* A counter below 0 stands for the wrapped one.                            *)
EntryDrop(s, t) ==
    [s |-> [s EXCEPT !.slab[t].refs = @ - 1],
     fetched |-> s.slab[t].refs,
     reclaim |-> s.slab[t].refs = 0]

(* The shards that are run: a capacity and the weights of the records.  A   *)
(* shard starts with every record emplaced: its slot occupied, the record   *)
(* indexed and tracked by the engine, usage the sum of the weights, and one *)
(* entry handle, the one emplace returned, held by thread 1.               *)

ShardWorlds ==
    {[capacity |-> cap, weights |-> [r \in Records |-> 1]] : cap \in Records}
    \cup {[capacity |-> Cardinality(Records),
            weights |-> [r \in Records |-> IF r = 1 THEN MaxWeight ELSE 1]]}

RECURSIVE SumOver(_, _)
SumOver(f, S) ==
    IF S = {} THEN 0 ELSE LET x == CHOOSE x \in S : TRUE IN f[x] + SumOver(f, S \ {x})

Orders == {o \in [Records -> Records] : \A a, b \in Records : a # b => o[a] # o[b]}

Emplaced(w, order, deposit) ==
    [slab |-> [r \in Records |->
                  [RecordNew(w.weights[r]) EXCEPT
                      !.refs = 1,
                      !.flags = {"IN_INDEXER", "IN_EVICTION"}
                                \cup (IF r \in deposit THEN {"DEPOSIT"} ELSE {})]],
     eviction |-> order,
     indexer |-> Records,
     capacity |-> w.capacity,
     usage |-> SumOver(w.weights, Records),
     waiters |-> <<>>]

InitShard ==
    /\ \E w \in ShardWorlds, order \in Orders, deposit \in {{}, {1}} :
            shard = Emplaced(w, order, deposit)
    /\ handles = [th \in Threads |-> [r \in Records |-> IF th = 1 THEN 1 ELSE 0]]
    /\ fetches = <<>>
    /\ last = Call("emplace", NoToken, NoToken, <<>>)
    /\ prev = <<>>
    /\ NoLfu
    /\ script = <<>>
    /\ list = <<>> /\ deque = <<>> /\ issued = {} /\ cursor = NoToken
    /\ NoRecord

ShardCalled(s, call) ==
    /\ shard' = s
    /\ last' = call
    /\ UNCHANGED <<prev, lfuVars, listVars, fetches, flagVars>>

(* A thread clones a handle it was lent by any thread that holds one *)
CloneCall(th, t) ==
    /\ \E holder \in Threads : handles[holder][t] > 0
    /\ shard.slab[t].refs < MaxRefs
    /\ LET r == EntryClone(shard, t)
       IN  ShardCalled(r.s, Call("clone", t, r.fetched, <<th, FALSE>>))
    /\ handles' = [handles EXCEPT ![th][t] = @ + 1]

DropCall(th, t) ==
    /\ handles[th][t] > 0
    /\ LET r == EntryDrop(shard, t)
       IN  ShardCalled(r.s, Call("drop", t, r.fetched, <<th, r.reclaim>>))
    /\ handles' = [handles EXCEPT ![th][t] = @ - 1]

EvictCall(w) ==
    /\ LET r == ShardEvict(shard, w)
       IN  ShardCalled(r.s, [op |-> "evict", token |-> NoToken, ret |-> w,
                             res |-> r.popped, before |-> shard])
    /\ UNCHANGED handles

ReleaseCall(t) ==
    /\ LET r == ShardRelease(shard, t)
       IN  ShardCalled(r.s, [op |-> "release", token |-> t, ret |-> NoToken,
                             res |-> <<r.panic, r.deposit>>, before |-> shard])
    /\ UNCHANGED handles

NextShard ==
    \/ \E th \in Threads, t \in Records : CloneCall(th, t)
    \/ \E th \in Threads, t \in Records : DropCall(th, t)
    \/ \E w \in 0..MaxWeight : EvictCall(w)
    \/ \E t \in Records : ReleaseCall(t)

SpecShard == InitShard /\ [][NextShard]_vars

-----------------------------------------------------------------------------
(* Misses on a shard that holds nothing yet.  The waiter table maps a key   *)
(* with a load in flight to the callers waiting for it, in the order they   *)
(* registered.  A caller's get that misses either opens the key's entry and *)
(* becomes the leader, which loads the value and then calls emplace, or     *)
(* joins the entry and waits.                                               *)

Keys == {1, 2}

Callers == {1, 2, 3}

RecordVacant == [occupied |-> FALSE, refs |-> 0, flags |-> {}, weight |-> 0]

ShardNew(capacity) ==
    [slab |-> [r \in Records |-> RecordVacant],
     eviction |-> <<>>,
     indexer |-> {},
     capacity |-> capacity,
     usage |-> 0,
     waiters |-> <<>>]

(* get(key) on a miss: the first caller opens the key's waiter list and     *)
(* leads, a later one is appended to it.                                    *)
ShardGetMiss(s, k, caller) ==
    IF k \in DOMAIN s.waiters
    THEN [s |-> [s EXCEPT !.waiters[k] = Append(@, caller)], leader |-> FALSE]
    ELSE [s |-> [s EXCEPT !.waiters = @ @@ (k :> <<>>)], leader |-> TRUE]

(* GenericCache::emplace: the hash and the weight are computed, then todo!() *)
ShardEmplace(s, k, w) == [s |-> s, panic |-> "todo"]

Idle == [key |-> NoToken, pc |-> "idle", loads |-> 0]

InitFetch ==
    /\ \E cap \in Records : shard = ShardNew(cap)
    /\ fetches = [c \in Callers |-> Idle]
    /\ handles = [th \in Callers |-> [r \in Records |-> 0]]
    /\ last = Call("new", NoToken, NoToken, <<>>)
    /\ prev = <<>>
    /\ NoLfu
    /\ script = <<>>
    /\ list = <<>> /\ deque = <<>> /\ issued = {} /\ cursor = NoToken
    /\ NoRecord

FetchCalled(s, call) ==
    /\ shard' = s
    /\ last' = call
    /\ UNCHANGED <<prev, lfuVars, listVars, handles, flagVars>>

GetMissCall(c, k) ==
    /\ fetches[c].pc = "idle"
    /\ k \notin shard.indexer
    /\ LET r == ShardGetMiss(shard, k, c)
       IN  /\ FetchCalled(r.s, Call("get", k, NoToken, <<c, r.leader>>))
           /\ fetches' = [fetches EXCEPT ![c].key = k,
                                         ![c].pc = IF r.leader THEN "leader" ELSE "waiting"]

(* The leader loads the value, outside the shard lock *)
LoadCall(c) ==
    /\ fetches[c].pc = "leader"
    /\ FetchCalled(shard, Call("load", fetches[c].key, NoToken, <<c>>))
    /\ fetches' = [fetches EXCEPT ![c].pc = "loaded", ![c].loads = @ + 1]

(* The leader calls emplace with the loaded value *)
EmplaceCall(c, w) ==
    /\ fetches[c].pc = "loaded"
    /\ LET r == ShardEmplace(shard, fetches[c].key, w)
       IN  /\ FetchCalled(r.s, Call("emplace", fetches[c].key, NoToken, <<c, r.panic>>))
           /\ fetches' = [fetches EXCEPT ![c].pc = "panicked"]

NextFetch ==
    \/ \E c \in Callers, k \in Keys : GetMissCall(c, k)
    \/ \E c \in Callers : LoadCall(c)
    \/ \E c \in Callers, w \in 1..MaxWeight : EmplaceCall(c, w)

SpecFetch == InitFetch /\ [][NextFetch]_vars

-----------------------------------------------------------------------------
(* The flags of one Record, set and queried by two threads.  A thread is in *)
(* a call from the moment it makes it until the call's one atomic           *)
(* instruction on Record::flags has run, so the calls of the two threads    *)
(* overlap in every order.  Record::new and Record::set take the record by  *)
(* value and by &mut: they run while no call is in flight.                  *)

Flags == {"IN_INDEXER", "IN_EVICTION", "DEPOSIT"}

(* Record::new *)
RecordFresh == [data |-> NoData, refs |-> 0, flags |-> {}]

(* Record::set *)
RecordSet(r, data) == [r EXCEPT !.data = data]

NotCalling == [op |-> "none", flag |-> "", val |-> FALSE]

InitFlags ==
    /\ record = RecordFresh
    /\ pending = [th \in Threads |-> NotCalling]
    /\ written = [f \in Flags |-> FALSE]
    /\ wiped = {}
    /\ last = Call("new", NoToken, FALSE, <<>>)
    /\ prev = RecordFresh
    /\ NoLfu
    /\ script = <<>>
    /\ list = <<>> /\ deque = <<>> /\ issued = {} /\ cursor = NoToken
    /\ shard = <<>> /\ handles = <<>> /\ fetches = <<>>

RecordCalled(r, call) ==
    /\ record' = r
    /\ last' = call
    /\ prev' = record
    /\ UNCHANGED <<lfuVars, listVars, shardVars>>

NewCall ==
    /\ \A th \in Threads : pending[th] = NotCalling
    /\ RecordCalled(RecordFresh, Call("new", NoToken, FALSE, <<>>))
    /\ written' = [f \in Flags |-> FALSE]
    /\ wiped' = {}
    /\ UNCHANGED pending

SetCall(data) ==
    /\ \A th \in Threads : pending[th] = NotCalling
    /\ record.data = NoData
    /\ RecordCalled(RecordSet(record, data), Call("set", NoToken, FALSE, <<data>>))
    /\ UNCHANGED <<pending, written, wiped>>

(* A thread calls set_in_indexer, set_in_eviction or set_deposit *)
BeginSetFlags(th, flag, val) ==
    /\ pending[th] = NotCalling
    /\ pending' = [pending EXCEPT ![th] = [op |-> "set_flags", flag |-> flag, val |-> val]]
    /\ UNCHANGED <<record, written, wiped, last, prev, lfuVars, listVars, shardVars>>

(* A thread calls is_in_indexer, is_in_eviction or is_deposit *)
BeginGetFlags(th, flag) ==
    /\ pending[th] = NotCalling
    /\ pending' = [pending EXCEPT ![th] = [op |-> "get_flags", flag |-> flag, val |-> FALSE]]
    /\ UNCHANGED <<record, written, wiped, last, prev, lfuVars, listVars, shardVars>>

(* The fetch_or or fetch_and of a set_flags in flight *)
SetFlagsStep(th) ==
    /\ pending[th].op = "set_flags"
    /\ LET f == pending[th].flag
           v == pending[th].val
       IN  /\ RecordCalled([record EXCEPT !.flags = SetFlags(@, f, v)],
                           Call("set_flags", th, FALSE, <<f, v>>))
           /\ written' = [written EXCEPT ![f] = v]
           /\ wiped' = wiped \ {f}
    /\ pending' = [pending EXCEPT ![th] = NotCalling]

(* The fetch_and of a get_flags in flight *)
GetFlagsStep(th) ==
    /\ pending[th].op = "get_flags"
    /\ LET f == pending[th].flag
           g == GetFlags(record.flags, f)
       IN  /\ RecordCalled([record EXCEPT !.flags = g.word],
                           Call("get_flags", th, g.ret, <<f>>))
           /\ wiped' = wiped \cup (Flags \ {f})
    /\ pending' = [pending EXCEPT ![th] = NotCalling]
    /\ UNCHANGED written

NextFlags ==
    \/ NewCall
    \/ \E data \in Items : SetCall(data)
    \/ \E th \in Threads, flag \in Flags, val \in BOOLEAN : BeginSetFlags(th, flag, val)
    \/ \E th \in Threads, flag \in Flags : BeginGetFlags(th, flag)
    \/ \E th \in Threads : SetFlagsStep(th)
    \/ \E th \in Threads : GetFlagsStep(th)

SpecFlags == InitFlags /\ [][NextFlags]_vars

-----------------------------------------------------------------------------
(* Properties *)

Occurs(s, t) == Cardinality({i \in 1..Len(s) : s[i] = t})

RECURSIVE SumWeight(_)
SumWeight(s) == IF s = <<>> THEN 0 ELSE weight[Head(s)] + SumWeight(Tail(s))

SegmentOf(e, t) ==
    CASE Occurs(e.window, t) = 1 /\ Occurs(e.probation, t) = 0 /\ Occurs(e.protected, t) = 0
            -> "Window"
      [] Occurs(e.window, t) = 0 /\ Occurs(e.probation, t) = 1 /\ Occurs(e.protected, t) = 0
            -> "Probation"
      [] Occurs(e.window, t) = 0 /\ Occurs(e.probation, t) = 0 /\ Occurs(e.protected, t) = 1
            -> "Protected"
      [] OTHER -> "None"

Popped == last.op = "pop"

BothFronts == prev.window # <<>> /\ prev.probation # <<>>

WindowFront == Head(prev.window)

ProbationFront == Head(prev.probation)

DataOf(s) == [i \in 1..Len(s) |-> Data(s[i])]

AfterPushes ==
    \/ script = TestP0 \o TestReleases \o TestRest
    \/ script = TestReleases

AfterFirstPop == script = Tail(TestP0) \o TestReleases \o TestRest

AfterReleasesDirect == script = <<>> /\ last.op = "release"

AfterReleasesTest == script = TestRest /\ last.op = "release"

UnitEstimates == \A k \in 0..9 : Estimate(prev, Ptr(k)) = 1

(* C1: every token pushed and not since popped or removed is in exactly one *)
(* of window, probation, protected, exactly once, its Queue tag names that  *)
(* segment, and each segment weight is the sum of the weights of the        *)
(* entries in that segment.                                                 *)
C1_SegmentsAndWeights ==
    /\ \A t \in tracked : SegmentOf(Lfu, t) # "None" /\ queue[t] = SegmentOf(Lfu, t)
    /\ window_weight = SumWeight(window)
    /\ probation_weight = SumWeight(probation)
    /\ protected_weight = SumWeight(protected)
    /\ window_weight + probation_weight + protected_weight
         = SumWeight(window \o probation \o protected)

C1_Witness ==
    /\ window # <<>> /\ probation # <<>> /\ protected # <<>>
    /\ window_weight > 0 /\ probation_weight > 0 /\ protected_weight > 0
    /\ last.op = "release"
    /\ prev.queue[last.token] = "Probation"
    /\ tracked = Tokens

(* C2: with window and probation both non-empty, pop() takes the window     *)
(* front when its estimate is strictly lower than that of the probation     *)
(* front, the probation front when that one's estimate is strictly lower;   *)
(* the victim is always one of the two fronts.                              *)
C2_PopLowerEstimate ==
    (Popped /\ BothFronts) =>
        /\ last.ret \in {WindowFront, ProbationFront}
        /\ Estimate(prev, WindowFront) < Estimate(prev, ProbationFront) =>
              /\ last.ret = WindowFront
              /\ window = Tail(prev.window) /\ probation = prev.probation
        /\ Estimate(prev, ProbationFront) < Estimate(prev, WindowFront) =>
              /\ last.ret = ProbationFront
              /\ probation = Tail(prev.probation) /\ window = prev.window

C2_Witness ==
    /\ Popped /\ BothFronts
    /\ Len(prev.window) >= 2
    /\ Estimate(prev, WindowFront) < Estimate(prev, ProbationFront)
    /\ last.ret = WindowFront

(* C3 as claimed: with both fronts present and equal estimates, pop()       *)
(* returns the window front.                                               *)
C3_TieTakesWindowFront ==
    (Popped /\ BothFronts
        /\ Estimate(prev, WindowFront) = Estimate(prev, ProbationFront))
    => last.ret = WindowFront

(* C3 as amended: with both fronts present and equal estimates, pop()       *)
(* returns the probation front and leaves window as it was.                 *)
C3_TieTakesProbationFront ==
    (Popped /\ BothFronts
        /\ Estimate(prev, WindowFront) = Estimate(prev, ProbationFront))
    => /\ last.ret = ProbationFront
       /\ probation = Tail(prev.probation)
       /\ window = prev.window

C3_Witness ==
    /\ Popped /\ BothFronts
    /\ Estimate(prev, WindowFront) = Estimate(prev, ProbationFront)
    /\ Estimate(prev, WindowFront) > 0
    /\ last.ret = ProbationFront

(* C4: capacity 10, ratios 0.2 / 0.6: after the pushes of keys 0..9, all of *)
(* estimate 1, the first pop() returns key 0, 9 entries stay tracked and    *)
(* key 0 is untracked.                                                      *)
C4_FirstPopReturnsKey0 ==
    (AfterFirstPop /\ Popped /\ UnitEstimates) =>
        /\ last.ret = Ptr(0)
        /\ LfuLen(Lfu) = 9
        /\ ~IsLinked(Lfu, Ptr(0))
        /\ queue[Ptr(0)] = "None"
        /\ ~in_eviction[Ptr(0)]
        /\ tracked = {Ptr(k) : k \in 1..9}

C4_Witness ==
    /\ AfterFirstPop /\ Popped /\ UnitEstimates
    /\ DataOf(Dump(prev)) = <<8, 9, 0, 1, 2, 3, 4, 5, 6, 7>>
    /\ last.ret = Ptr(0)

(* C5: pop() takes its victim from protected (its front) only when window   *)
(* and probation are both empty; when either is non-empty the victim comes  *)
(* from window or probation and protected is unchanged.                     *)
C5_ProtectedLast ==
    Popped =>
        /\ (last.ret # NoToken /\ prev.queue[last.ret] = "Protected") =>
              /\ prev.window = <<>> /\ prev.probation = <<>>
              /\ last.ret = Head(prev.protected)
        /\ (prev.window # <<>> \/ prev.probation # <<>>) =>
              /\ last.ret \in Range(prev.window) \cup Range(prev.probation)
              /\ protected = prev.protected
              /\ protected_weight = prev.protected_weight

C5_Witness ==
    /\ Popped
    /\ prev.window = <<>> /\ prev.probation = <<>>
    /\ Len(prev.protected) >= 2
    /\ last.ret = Head(prev.protected)
    /\ protected = Tail(prev.protected)

(* C6: pop() returns None exactly when the engine tracks no entry; with an  *)
(* entry tracked it returns a token that was tracked; a pop() that returns  *)
(* None changes nothing.                                                    *)
C6_PopNoneIffEmpty ==
    Popped =>
        /\ (last.ret = NoToken) <=>
              (prev.window = <<>> /\ prev.probation = <<>> /\ prev.protected = <<>>)
        /\ (last.ret = NoToken) <=> (LfuLen(prev) = 0)
        /\ last.ret # NoToken =>
              /\ IsLinked(prev, last.ret)
              /\ prev.queue[last.ret] # "None"
              /\ prev.in_eviction[last.ret]
              /\ ~IsLinked(Lfu, last.ret)
        /\ last.ret = NoToken => Lfu = prev

C6_Witness ==
    /\ Popped
    /\ last.ret = NoToken
    /\ LfuLen(prev) = 0
    /\ step > 0

(* C7: after any release call, protected_weight <= protected capacity,      *)
(* also for an entry heavier than the capacity and for capacity 0.          *)
C7_ProtectedWithinCapacity ==
    last.op = "release" => protected_weight <= protected_weight_capacity

C7_Witness ==
    /\ last.op = "release"
    /\ prev.queue[last.token] = "Probation"
    /\ weight[last.token] > protected_weight_capacity
    /\ prev.protected # <<>>
    /\ queue[last.token] = "Probation"
    /\ protected_weight <= protected_weight_capacity

(* C8: capacity 10, ratios 0.2 / 0.6: after the pushes of the unit-weight   *)
(* keys 0..9 the segments hold 2, 8 and 0 entries, the weights are 2, 8, 0  *)
(* and the dump is 8, 9, 0, 1, 2, 3, 4, 5, 6, 7.                            *)
C8_TenPushes ==
    AfterPushes =>
        /\ Len(window) = 2 /\ Len(probation) = 8 /\ Len(protected) = 0
        /\ window_weight = 2 /\ probation_weight = 8 /\ protected_weight = 0
        /\ DataOf(Dump(Lfu)) = <<8, 9, 0, 1, 2, 3, 4, 5, 6, 7>>

C8_Witness ==
    /\ AfterPushes
    /\ last.op = "push" /\ last.token = Ptr(9)
    /\ window_weight_capacity = 2 /\ protected_weight_capacity = 6
    /\ tracked = {Ptr(k) : k \in 0..9}

(* C9 as claimed: the pushes of keys 0..9 followed, with no other call in   *)
(* between, by release of 3,4,5,6, of 3,4 and of 1,2,7,8 end with the dump  *)
(* 0, 9, 5, 6, 3, 4, 1, 2, 7, 8 and 2, 2, 6 entries.                        *)
C9_DirectDumpAsClaimed ==
    AfterReleasesDirect =>
        /\ DataOf(Dump(Lfu)) = <<0, 9, 5, 6, 3, 4, 1, 2, 7, 8>>
        /\ Len(window) = 2 /\ Len(probation) = 2 /\ Len(protected) = 6

(* C9 as amended: that sequence ends with the dump 9, 8, 0, 5, 6, 3, 4, 1,  *)
(* 2, 7 and 2, 2, 6 entries; the dump 0, 9, 5, 6, 3, 4, 1, 2, 7, 8 is that  *)
(* of test_lfu, where pop(), release of the popped key 0 and release(9)     *)
(* come between the pushes and the releases (keys hashed apart).            *)
C9_ReleaseDumps ==
    /\ AfterReleasesDirect =>
          /\ DataOf(Dump(Lfu)) = <<9, 8, 0, 5, 6, 3, 4, 1, 2, 7>>
          /\ Len(window) = 2 /\ Len(probation) = 2 /\ Len(protected) = 6
          /\ window_weight = 2 /\ probation_weight = 2 /\ protected_weight = 6
    /\ (AfterReleasesTest /\ \A t \in Tokens : hash[t] = Data(t)) =>
          /\ DataOf(Dump(Lfu)) = <<0, 9, 5, 6, 3, 4, 1, 2, 7, 8>>
          /\ Len(window) = 2 /\ Len(probation) = 2 /\ Len(protected) = 6
          /\ window_weight = 2 /\ probation_weight = 2 /\ protected_weight = 6

C9_Witness ==
    /\ AfterReleasesDirect
    /\ last.token = Ptr(8)
    /\ prev.queue[Ptr(8)] = "Window"
    /\ DataOf(protected) = <<6, 3, 4, 1, 2, 7>>

(* C10: push of an untracked token leaves it tracked (Queue tag set,        *)
(* IN_EVICTION set, linked in exactly one segment), len() grows by exactly  *)
(* one and every token tracked before is still tracked.                     *)
C10_PushTracks ==
    last.op = "push" =>
        /\ prev.queue[last.token] = "None"
        /\ ~IsLinked(prev, last.token)
        /\ ~prev.in_eviction[last.token]
        /\ queue[last.token] # "None"
        /\ in_eviction[last.token]
        /\ SegmentOf(Lfu, last.token) = queue[last.token]
        /\ LfuLen(Lfu) = LfuLen(prev) + 1
        /\ \A u \in Tokens :
              IsLinked(prev, u) =>
                  /\ IsLinked(Lfu, u)
                  /\ queue[u] # "None"
                  /\ in_eviction[u]

C10_Witness ==
    /\ last.op = "push"
    /\ LfuLen(prev) >= 2
    /\ queue[last.token] = "Probation"
    /\ LfuLen(Lfu) = 3

Acquired == last.op = "acquire"

EstimateBefore == Estimate(prev, last.token)

EstimateAfter == Estimate(Lfu, last.token)

Incremented(n) == IF n < CounterMax THEN n + 1 ELSE n

(* C11 as claimed: acquire(x) never decreases the frequency estimate of x's *)
(* hash, whatever the step counter.                                         *)
C11_AcquireNeverDecreases == Acquired => EstimateAfter >= EstimateBefore

(* C11: acquire(x) does not decrease the estimate of x's hash unless the    *)
(* call brings step to decay: short of decay the estimate is the one before *)
(* plus one (saturating); at decay every counter is halved after the        *)
(* increment and the estimate is half of that, rounded down.                *)
C11_AcquireEstimate ==
    Acquired =>
        IF prev.step + 1 >= decay
        THEN /\ EstimateAfter = Incremented(EstimateBefore) \div 2
             /\ step = (prev.step + 1) \div 2
        ELSE /\ EstimateAfter = Incremented(EstimateBefore)
             /\ EstimateAfter >= EstimateBefore
             /\ step = prev.step + 1

C11_Witness ==
    /\ Acquired
    /\ prev.step + 1 < decay
    /\ EstimateBefore >= 1
    /\ EstimateAfter = EstimateBefore + 1
    /\ last.token \in tracked

NewCapacity == last.res[1]

NewWindowRatio == last.res[2]

NewProtectedRatio == last.res[3]

(* The three conditions on the ratios as written, in tenths *)
RatiosValid ==
    /\ 0 < NewWindowRatio /\ NewWindowRatio < 10
    /\ 0 < NewProtectedRatio /\ NewProtectedRatio < 10
    /\ NewWindowRatio + NewProtectedRatio < 10

NoEngine ==
    /\ window = <<NoToken>> /\ probation = <<NoToken>> /\ protected = <<NoToken>>
    /\ window_weight = -1 /\ probation_weight = -1 /\ protected_weight = -1
    /\ step = -1

(* C12: new(capacity, config) panics, constructing no engine, exactly when  *)
(* the config violates 0 < window_ratio < 1, 0 < protected_ratio < 1 or     *)
(* window_ratio + protected_ratio < 1; for every other config it returns    *)
(* an engine with the three segments empty, the three weights 0 and step 0. *)
C12_NewPanicsIffInvalid ==
    /\ last.op = "panic" => ~RatiosValid /\ NoEngine
    /\ last.op = "new" =>
        /\ RatiosValid
        /\ window = <<>> /\ probation = <<>> /\ protected = <<>>
        /\ window_weight = 0 /\ probation_weight = 0 /\ protected_weight = 0
        /\ step = 0

C12_Witness ==
    /\ last.op = "panic"
    /\ NewWindowRatio = 3 /\ NewProtectedRatio = 7
    /\ NoEngine

FloorOrOneLess(cap, capacity, ratio) ==
    \/ cap = (capacity * ratio) \div 10
    \/ cap = ((capacity * ratio) \div 10) - 1 /\ (capacity * ratio) % 10 = 0

C14_ListIsDeque ==
    /\ ListIter(list) = deque
    /\ ListLen(list) = Len(deque)
    /\ ListIsEmpty(list) <=> deque = <<>>
    /\ ListFront(list) = (IF deque = <<>> THEN NoData ELSE Head(deque))
    /\ ListBack(list) = (IF deque = <<>> THEN NoData ELSE deque[Len(deque)])
    /\ last.op \in {"pop_front", "pop_back"} =>
          /\ last.ret = last.res[1]
          /\ prev.deque = <<>> => last.ret = NoData /\ ListIsEmpty(list)

C14_Witness ==
    /\ last.op = "pop_back"
    /\ Len(prev.deque) = MaxList
    /\ last.ret = prev.deque[MaxList]
    /\ prev.deque[1] # prev.deque[MaxList]
    /\ list.head # FromRaw(0)
    /\ ListIter(list) = SubSeq(prev.deque, 1, MaxList - 1)

(* C20 as claimed: the token insert_node issues for a new node is equal to  *)
(* no token issued earlier, also when the node reuses a freed slot.         *)
C20_FreshTokens ==
    last.op \in {"push_front", "push_back"} => last.token \notin prev.issued

LiveHandles(t) == SumOver([th \in Threads |-> handles[th][t]], Threads)

Refs(t) == shard.slab[t].refs

Resident(t) == {"IN_INDEXER", "IN_EVICTION"} \cap shard.slab[t].flags # {}

(* C15 as claimed: a record's slot is freed exactly when its refcount is    *)
(* zero and it is neither IN_INDEXER nor IN_EVICTION: never while a handle  *)
(* is live or the record is indexed or tracked, and always once the         *)
(* refcount is zero and both flags are clear.                               *)
C15_FreedIffUnreferenced ==
    \A t \in Records :
        ~shard.slab[t].occupied <=> (Refs(t) = 0 /\ LiveHandles(t) = 0 /\ ~Resident(t))

(* C16 as claimed: dropping a handle takes one off the refcount and enters  *)
(* the reclamation path exactly when the drop takes the refcount to zero.   *)
C16_DropReclaimsAtZero ==
    last.op = "drop" =>
        /\ Refs(last.token) = last.ret - 1
        /\ last.res[2] <=> Refs(last.token) = 0

(* C17: whatever the interleaving of the threads' clones and drops, a clone *)
(* adds exactly one to the refcount and a drop takes exactly one off, so    *)
(* the refcount is the number of live handles and never below zero.         *)
C17_RefsCountHandles ==
    /\ \A t \in Records : Refs(t) = LiveHandles(t) /\ Refs(t) >= 0
    /\ last.op = "clone" => Refs(last.token) = last.ret + 1
    /\ last.op = "drop" => Refs(last.token) = last.ret - 1

C17_Witness ==
    /\ last.op = "drop"
    /\ last.res[1] = 2
    /\ Refs(last.token) = 2
    /\ handles[1][last.token] = 1 /\ handles[2][last.token] = 1

RECURSIVE RetiredWeight(_, _)
RetiredWeight(s, popped) ==
    IF popped = <<>> THEN 0
    ELSE (IF s.slab[Head(popped)].refs = 0 THEN s.slab[Head(popped)].weight ELSE 0)
         + RetiredWeight(s, Tail(popped))

(* C18 as claimed: evict pops only while usage + weight > capacity: not at  *)
(* all when within capacity on entry, no more once the victims retired so   *)
(* far bring usage + weight within capacity, and it stops when pop returns  *)
(* None.                                                                    *)
C18_EvictPopsOnlyWhileOver ==
    last.op = "evict" =>
        LET b == last.before
            w == last.ret
            popped == last.res
        IN  /\ b.usage + w <= b.capacity => popped = <<>>
            /\ \A i \in 1..Len(popped) :
                  b.usage - RetiredWeight(b, SubSeq(popped, 1, i - 1)) + w > b.capacity
            /\ Len(popped) <= Len(b.eviction)

(* C19 as claimed: every token evict pops whose refcount is zero is retired *)
(* (out of the indexer, slot freed, usage less its weight); a popped token  *)
(* with handles keeps its slot and is no longer tracked by the engine.      *)
C19_EvictRetiresUnreferenced ==
    last.op = "evict" =>
        LET b == last.before
            popped == last.res
        IN  /\ \A i \in 1..Len(popped) :
                  IF b.slab[popped[i]].refs = 0
                  THEN /\ popped[i] \notin shard.indexer
                       /\ ~shard.slab[popped[i]].occupied
                  ELSE /\ shard.slab[popped[i]].occupied
                       /\ popped[i] \notin Range(shard.eviction)
            /\ shard.usage = b.usage - RetiredWeight(b, popped)


(* Between two calls of the free-running engine *)
Called(op) == last.op = op

HeavyForWindow(t) == weight[t] > window_weight_capacity

(* C22: between calls the weight of window is within window_weight_capacity, *)
(* whatever the weights of the entries (an entry heavier than the capacity,  *)
(* a capacity of 0): the push of an entry that is too heavy for window ends  *)
(* with that entry demoted to probation, and pop, remove, release and        *)
(* acquire never leave window_weight above the capacity; window_weight is    *)
(* the weight of the entries window holds.                                   *)
C22_WindowWithinCapacity ==
    /\ window_weight <= window_weight_capacity
    /\ window_weight = SumWeight(window)
    /\ Called("push") /\ HeavyForWindow(last.token) =>
            /\ window = <<>>
            /\ probation # <<>> /\ probation[Len(probation)] = last.token

(* A push of an entry heavier than a window capacity that is not 0, onto a *)
(* window that held an entry, has emptied window into probation.           *)
C22_Witness ==
    /\ Called("push") /\ HeavyForWindow(last.token)
    /\ window_weight_capacity > 0
    /\ prev.window # <<>>
    /\ window = <<>>
    /\ Len(probation) >= 2


(* The last call was release(x) and x was in segment q when it began *)
ReleasedFrom(q) == Called("release") /\ prev.queue[last.token] = q

Last(s) == s[Len(s)]

AtProtectedMRU(t) == protected # <<>> /\ Last(protected) = t /\ queue[t] = "Protected"

AtProbationMRU(t) == probation # <<>> /\ Last(probation) = t /\ queue[t] = "Probation"

(* The entries of s from the n-th on, and the first n *)
Drop(s, n) == SubSeq(s, n + 1, Len(s))

Take(s, n) == SubSeq(s, 1, n)

(* C23 as stated: after release(x) of a probation entry x, x is the MRU of  *)
(* protected, its weight has moved from probation_weight to                 *)
(* protected_weight, and the entries demoted to bring protected_weight      *)
(* within protected_weight_capacity are the leading entries of the former   *)
(* protected, appended to probation in their order.                         *)
C23_PromotedStaysInProtected ==
    ReleasedFrom("Probation") =>
        LET x == last.token
            k == Len(prev.protected) + 1 - Len(protected)
            demoted == Take(prev.protected, k)
        IN  /\ AtProtectedMRU(x)
            /\ k \in 0..Len(prev.protected)
            /\ protected = Drop(prev.protected, k) \o <<x>>
            /\ probation = RemoveRaw(prev.probation, x) \o demoted
            /\ probation_weight = prev.probation_weight - weight[x] + SumWeight(demoted)
            /\ protected_weight = prev.protected_weight + weight[x] - SumWeight(demoted)
            /\ protected_weight <= protected_weight_capacity

(* C23, amended: release(x) of a probation entry x moves x and its weight   *)
(* to the MRU end of protected; then, while protected_weight is above       *)
(* protected_weight_capacity, the LRU entry of protected moves to the MRU   *)
(* end of probation.  The demoted entries are the leading entries of the    *)
(* former protected followed by x, in that order and no more of them than   *)
(* the capacity requires.  x stays the MRU of protected exactly when its    *)
(* weight is within the capacity; otherwise protected is emptied and x ends *)
(* as the MRU of probation.                                                 *)
C23_PromotedThenCascade ==
    ReleasedFrom("Probation") =>
        LET x == last.token
            promoted == prev.protected \o <<x>>
            k == Len(promoted) - Len(protected)
            demoted == Take(promoted, k)
        IN  /\ k \in 0..Len(promoted)
            /\ protected = Drop(promoted, k)
            /\ probation = RemoveRaw(prev.probation, x) \o demoted
            /\ \A i \in 1..Len(promoted) :
                    queue[promoted[i]] = IF i <= k THEN "Probation" ELSE "Protected"
            /\ probation_weight = prev.probation_weight - weight[x] + SumWeight(demoted)
            /\ protected_weight = prev.protected_weight + weight[x] - SumWeight(demoted)
            /\ protected_weight <= protected_weight_capacity
            /\ k > 0 => SumWeight(Drop(promoted, k - 1)) > protected_weight_capacity
            /\ IF weight[x] <= protected_weight_capacity
               THEN AtProtectedMRU(x)
               ELSE protected = <<>> /\ AtProbationMRU(x)

(* An entry heavier than a protected capacity that is not 0 was released    *)
(* from probation while protected held an entry: both are in probation now, *)
(* the former protected entry before the released one.                      *)
C23_Witness ==
    /\ ReleasedFrom("Probation")
    /\ weight[last.token] > protected_weight_capacity
    /\ protected_weight_capacity > 0
    /\ prev.protected # <<>>
    /\ protected = <<>>
    /\ Drop(probation, Len(probation) - 2) = <<Head(prev.protected), last.token>>


(* Segment `seg` holds what it held when the last call began, with t moved *)
(* to its MRU end and the other entries in their order.                    *)
BumpedIn(seg, t) ==
    /\ Lfu[seg] # <<>> /\ Last(Lfu[seg]) = t
    /\ Len(Lfu[seg]) = Len(prev[seg])
    /\ Occurs(Lfu[seg], t) = 1
    /\ RemoveRaw(Lfu[seg], t) = RemoveRaw(prev[seg], t)

SameWeights ==
    /\ window_weight = prev.window_weight
    /\ probation_weight = prev.probation_weight
    /\ protected_weight = prev.protected_weight

SameSketch == frequencies = prev.frequencies /\ step = prev.step

SameTags == queue = prev.queue /\ in_eviction = prev.in_eviction

(* C24: release(x) of an entry x of window (of protected) is a recency bump: *)
(* x is the MRU of that segment, the other entries keep their order, and the *)
(* other two segments, every entry's segment, the three weights and the      *)
(* sketch are as they were.                                                  *)
C24_ReleaseBumpsRecency ==
    /\ ReleasedFrom("Window") =>
            /\ BumpedIn("window", last.token)
            /\ probation = prev.probation /\ protected = prev.protected
            /\ SameWeights /\ SameSketch /\ SameTags
    /\ ReleasedFrom("Protected") =>
            /\ BumpedIn("protected", last.token)
            /\ window = prev.window /\ probation = prev.probation
            /\ SameWeights /\ SameSketch /\ SameTags

(* The LRU entry of a window of two or more was released and is its MRU now *)
C24_Witness ==
    /\ ReleasedFrom("Window")
    /\ Len(prev.window) >= 2
    /\ Head(prev.window) = last.token
    /\ Last(window) = last.token
    /\ Head(window) = prev.window[2]


(* C25: release(x) of an untracked x (Queue::None) leaves the engine as     *)
(* push(x) from the same state leaves it: segments and their order, the     *)
(* weights, every Queue tag and IN_EVICTION flag, the sketch and the step   *)
(* counter; x is tracked, tagged and flagged as a pushed entry is.          *)
C25_ReleaseUntrackedIsPush ==
    ReleasedFrom("None") =>
        /\ Lfu = LfuPush(prev, last.token)
        /\ last.token \in tracked
        /\ queue[last.token] \in {"Window", "Probation"}
        /\ in_eviction[last.token]
        /\ Occurs(Dump(Lfu), last.token) = 1
        /\ step \in {prev.step + 1, (prev.step + 1) \div 2}

(* An untracked entry was released, is the MRU of window, and the entry    *)
(* that was the LRU of window is the MRU of probation.                     *)
C25_Witness ==
    /\ ReleasedFrom("None")
    /\ prev.window # <<>>
    /\ window # <<>> /\ Last(window) = last.token
    /\ AtProbationMRU(Head(prev.window))


SameSegments ==
    /\ window = prev.window
    /\ probation = prev.probation
    /\ protected = prev.protected

(* C26: acquire(token) changes the sketch and the step counter only: the    *)
(* three segments and their order, the three weights, every Queue tag and   *)
(* IN_EVICTION flag and len() are as before the call; the sketch is the one *)
(* update_frequencies makes for the token's hash.                           *)
C26_AcquireTouchesSketchOnly ==
    Called("acquire") =>
        /\ SameSegments /\ SameWeights /\ SameTags
        /\ LfuLen(Lfu) = LfuLen(prev)
        /\ frequencies = UpdateFrequencies(prev, hash[last.token]).frequencies
        /\ step = UpdateFrequencies(prev, hash[last.token]).step

(* A probation entry that is not the MRU of probation was acquired while   *)
(* window held an entry, and the sketch changed.                           *)
C26_Witness ==
    /\ Called("acquire")
    /\ queue[last.token] = "Probation"
    /\ Last(probation) # last.token
    /\ window # <<>>
    /\ frequencies # prev.frequencies


AtWindowMRU(t) == window # <<>> /\ Last(window) = t /\ queue[t] = "Window"

SketchBumpedFor(t) ==
    /\ frequencies = UpdateFrequencies(prev, hash[t]).frequencies
    /\ step = UpdateFrequencies(prev, hash[t]).step

(* C27 as stated: after push(x) the entries this call demoted are the       *)
(* leading entries of the former window, at the tail of probation in their  *)
(* order, protected is unchanged, the sketch is bumped for x, and x is the  *)
(* MRU of window.                                                           *)
C27_PushedStaysInWindow ==
    Called("push") =>
        LET x == last.token
            k == Len(prev.window) + 1 - Len(window)
            demoted == Take(prev.window, k)
        IN  /\ AtWindowMRU(x)
            /\ k \in 0..Len(prev.window)
            /\ window = Drop(prev.window, k) \o <<x>>
            /\ probation = prev.probation \o demoted
            /\ protected = prev.protected
            /\ SketchBumpedFor(x)

(* C27, amended: push(x) appends x at the MRU end of window, adds its       *)
(* weight to window_weight and bumps the sketch for its hash; then, while   *)
(* window_weight is above window_weight_capacity, the LRU entry of window   *)
(* moves to the MRU end of probation.  The demoted entries are the leading  *)
(* entries of the former window followed by x, in that order and no more of *)
(* them than the capacity requires; protected is unchanged.  x is the MRU   *)
(* of window exactly when its weight is within the capacity; otherwise      *)
(* window is emptied and x ends as the MRU of probation.                    *)
C27_PushedThenOverflow ==
    Called("push") =>
        LET x == last.token
            pushed == prev.window \o <<x>>
            k == Len(pushed) - Len(window)
            demoted == Take(pushed, k)
        IN  /\ k \in 0..Len(pushed)
            /\ window = Drop(pushed, k)
            /\ probation = prev.probation \o demoted
            /\ protected = prev.protected
            /\ \A i \in 1..Len(pushed) :
                    queue[pushed[i]] = IF i <= k THEN "Probation" ELSE "Window"
            /\ in_eviction[x]
            /\ window_weight = prev.window_weight + weight[x] - SumWeight(demoted)
            /\ probation_weight = prev.probation_weight + SumWeight(demoted)
            /\ protected_weight = prev.protected_weight
            /\ window_weight <= window_weight_capacity
            /\ k > 0 => SumWeight(Drop(pushed, k - 1)) > window_weight_capacity
            /\ SketchBumpedFor(x)
            /\ IF weight[x] <= window_weight_capacity
               THEN AtWindowMRU(x)
               ELSE window = <<>> /\ AtProbationMRU(x)

(* An entry heavier than the window capacity was pushed while window and   *)
(* probation held entries: probation is now its former entries, then the   *)
(* former window, then the pushed entry.                                   *)
C27_Witness ==
    /\ Called("push") /\ HeavyForWindow(last.token)
    /\ prev.window # <<>> /\ prev.probation # <<>>
    /\ probation = prev.probation \o prev.window \o <<last.token>>
    /\ AtProbationMRU(last.token)


(* The field of the engine that holds the segment a Queue tag names *)
FieldOf(q) ==
    CASE q = "Window" -> "window"
      [] q = "Probation" -> "probation"
      [] q = "Protected" -> "protected"

WeightOf(e, q) ==
    CASE q = "Window" -> e.window_weight
      [] q = "Probation" -> e.probation_weight
      [] q = "Protected" -> e.protected_weight

(* Token t, which segment q held when the last call began, has left the    *)
(* engine: it is unlinked, untagged and unflagged, q's weight is less by    *)
(* its weight, every other entry is where it was, and len() is less by 1.   *)
Detached(t, q) ==
    /\ ~IsLinked(Lfu, t)
    /\ queue[t] = "None" /\ ~in_eviction[t]
    /\ \A u \in Tokens \ {t} :
            queue[u] = prev.queue[u] /\ in_eviction[u] = prev.in_eviction[u]
    /\ \A seg \in {"window", "probation", "protected"} :
            Lfu[seg] = RemoveRaw(prev[seg], t)
    /\ \A r \in {"Window", "Probation", "Protected"} :
            WeightOf(Lfu, r) = WeightOf(prev, r) - (IF r = q THEN weight[t] ELSE 0)
    /\ LfuLen(Lfu) = LfuLen(prev) - 1

(* C28: the token pop() returns was the front of the segment its Queue tag  *)
(* named; it is unlinked, its Queue is None and IN_EVICTION clear; that     *)
(* segment's weight is less by exactly its weight, the other two weights    *)
(* and the order of the remaining entries are unchanged, and len() is less  *)
(* by exactly 1.                                                            *)
C28_PopDetaches ==
    Called("pop") /\ last.ret # NoToken =>
        /\ prev.queue[last.ret] # "None"
        /\ Head(prev[FieldOf(prev.queue[last.ret])]) = last.ret
        /\ Detached(last.ret, prev.queue[last.ret])
        /\ SameSketch

(* pop() took the front of a probation of two or more while window held an *)
(* entry, and the taken entry had a weight.                                *)
C28_Witness ==
    /\ Called("pop") /\ last.ret # NoToken
    /\ prev.queue[last.ret] = "Probation"
    /\ Len(prev.probation) >= 2
    /\ prev.window # <<>>
    /\ weight[last.ret] > 0

(* C29: remove(x) of a tracked x unlinks x from the segment its Queue tag   *)
(* names, takes weight(x) off that segment's weight, sets Queue to None and *)
(* clears IN_EVICTION; the other two segments, the order of the other       *)
(* entries and the sketch are unchanged and len() is less by exactly 1.     *)
C29_RemoveDetaches ==
    Called("remove") =>
        /\ prev.queue[last.token] # "None"
        /\ Occurs(prev[FieldOf(prev.queue[last.token])], last.token) = 1
        /\ Detached(last.token, prev.queue[last.token])
        /\ SameSketch
        /\ last.token \notin tracked

(* An entry with a weight that was not the front of its segment was removed *)
C29_Witness ==
    /\ Called("remove")
    /\ Head(prev[FieldOf(prev.queue[last.token])]) # last.token
    /\ weight[last.token] > 0
    /\ LfuLen(Lfu) >= 2

(* The tokens successive pop() calls return from engine e, until None *)
RECURSIVE PopsFrom(_)
PopsFrom(e) ==
    IF LfuPop(e).ret = NoToken
    THEN <<>>
    ELSE <<LfuPop(e).ret>> \o PopsFrom(LfuPop(e).e)

(* C30: clear() returns the tokens that were tracked, each once, in the     *)
(* order successive pop() calls from the same state return them, and leaves *)
(* the engine empty: len() is 0, the three weights are 0, and every         *)
(* returned token has Queue None and IN_EVICTION clear.                     *)
C30_ClearPopsAll ==
    Called("clear") =>
        /\ last.res = PopsFrom(prev)
        /\ Len(last.res) = LfuLen(prev)
        /\ \A t \in Tokens :
                Occurs(last.res, t) = (IF prev.queue[t] # "None" THEN 1 ELSE 0)
        /\ LfuLen(Lfu) = 0 /\ tracked = {}
        /\ window_weight = 0 /\ probation_weight = 0 /\ protected_weight = 0
        /\ \A t \in Tokens : queue[t] = "None" /\ ~in_eviction[t]

(* clear() emptied an engine whose three segments all held an entry, and   *)
(* did not return the entries in the order of the dump.                    *)
C30_Witness ==
    /\ Called("clear")
    /\ prev.window # <<>> /\ prev.probation # <<>> /\ prev.protected # <<>>
    /\ last.res # Dump(prev)
    /\ Last(last.res) = Last(prev.protected)


WaitingOn(k) == {c \in Callers : fetches[c].key = k /\ fetches[c].pc = "waiting"}

LoadsOf(k) == SumOver([c \in Callers |-> IF fetches[c].key = k THEN fetches[c].loads ELSE 0],
                      Callers)

(* C21: of the concurrent misses on a key one caller, the first, loads; the *)
(* others are in the key's waiter list and load nothing; once the leader's  *)
(* emplace has run, the key's waiter list is empty and every caller that    *)
(* waited for the key has been notified.                                    *)
C21_MissesCoalesced ==
    /\ \A k \in Keys : LoadsOf(k) <= 1
    /\ \A k \in Keys : WaitingOn(k) # {} =>
            k \in DOMAIN shard.waiters /\ Range(shard.waiters[k]) = WaitingOn(k)
    /\ \A c \in Callers : fetches[c].pc = "waiting" => fetches[c].loads = 0
    /\ Called("emplace") =>
            /\ last.token \in DOMAIN shard.waiters => shard.waiters[last.token] = <<>>
            /\ WaitingOn(last.token) = {}


(* The last call incremented the sketch: a push, the release of an          *)
(* untracked token, an acquire.                                             *)
SketchCounted == Called("push") \/ ReleasedFrom("None") \/ Called("acquire")

(* The last call was one that does not count an access *)
SketchUncounted ==
    \/ Called("pop") \/ Called("remove")
    \/ Called("release") /\ prev.queue[last.token] # "None"

(* C31: every increment of the sketch advances step by exactly one; when    *)
(* step reaches decay (the width of the sketch) every counter and step are  *)
(* halved in that same call; so 0 <= step < decay between calls; release of *)
(* a tracked token, pop and remove leave step and the sketch unchanged.     *)
C31_StepAndDecay ==
    /\ 0 <= step /\ step < decay
    /\ decay = Width(frequencies)
    /\ SketchCounted =>
            LET f == SketchInc(prev.frequencies, hash[last.token])
            IN  IF prev.step + 1 >= decay
                THEN step = (prev.step + 1) \div 2 /\ frequencies = SketchHalve(f)
                ELSE step = prev.step + 1 /\ frequencies = f
    /\ SketchUncounted => SameSketch

(* A push brought step to decay: step and a counter that stood at 2 or     *)
(* more were halved.                                                       *)
C31_Witness ==
    /\ Called("push")
    /\ prev.step + 1 = decay
    /\ step = decay \div 2
    /\ \E d \in 1..Depth(frequencies), i \in 1..Width(frequencies) :
            prev.frequencies[d][i] >= 2 /\ frequencies[d][i] < prev.frequencies[d][i]


(* The last call was release(token) of a record with refcount zero *)
ReleasedUnreferenced == Called("release") /\ last.res[1] # "assert_eq"

DepositBranchTaken == last.res[2]

FlagsBefore == last.before.slab[last.token].flags

(* C32 as claimed: release of a record with refcount zero enters the        *)
(* deposit branch exactly when the record is both IN_INDEXER and DEPOSIT,   *)
(* and then the record has left the indexer and is not tracked by the       *)
(* eviction engine.                                                         *)
C32_DepositBranch ==
    ReleasedUnreferenced =>
        /\ DepositBranchTaken <=> {"IN_INDEXER", "DEPOSIT"} \subseteq FlagsBefore
        /\ DepositBranchTaken =>
                /\ last.token \notin shard.indexer
                /\ "IN_INDEXER" \notin shard.slab[last.token].flags
                /\ last.token \notin Range(shard.eviction)
        /\ ~DepositBranchTaken => shard.indexer = last.before.indexer


(* The tokens of list l from head to tail, following next *)
RECURSIVE TokensFrom(_, _, _)
TokensFrom(l, at, fuel) ==
    IF at = NoToken \/ fuel = 0
    THEN <<>>
    ELSE <<at>> \o TokensFrom(l, GetNode(l, at).next, fuel - 1)

ListTokens(l) == TokensFrom(l, l.head, Len(l.slab.entries) + 1)

(* The place of token `at` in list l, 0 for the null position *)
PlaceOf(l, at) ==
    IF at = NoToken THEN 0
    ELSE CHOOSE i \in 1..Len(ListTokens(l)) : ListTokens(l)[i] = at

(* The token at place i of list l, the null position past either end *)
TokenAt(l, i) == IF i \in 1..Len(ListTokens(l)) THEN ListTokens(l)[i] ELSE NoToken

RECURSIVE NextTimes(_, _, _)
NextTimes(l, at, k) == IF k = 0 THEN at ELSE NextTimes(l, IterNext(l, at), k - 1)

RECURSIVE PrevTimes(_, _, _)
PrevTimes(l, at, k) == IF k = 0 THEN at ELSE PrevTimes(l, IterPrev(l, at), k - 1)

ItemOf(l, t) == GetNode(l, t).data

(* Every token of list l other than t names in `list` the item it named *)
OthersKeep(l, t) ==
    \A u \in LiveTokens(l) \ {t} :
        u \in LiveTokens(list) /\ ItemOf(list, u) = ItemOf(l, u)

(* `list` is l without the node t: the others in their order, one less *)
Unlinked(l, t) ==
    /\ ListTokens(list) = RemoveRaw(ListTokens(l), t)
    /\ t \notin LiveTokens(list)
    /\ OthersKeep(l, t)
    /\ ListLen(list) = ListLen(l) - 1
    /\ list.head = TokenAt(list, 1)
    /\ list.tail = TokenAt(list, ListLen(list))

(* C33: an iterator wraps through one null position between tail and head: *)
(* next() moves from a node to its successor, from the tail to null and     *)
(* from null to the head; prev() the other way round; n + 1 calls of next() *)
(* from null on a list of n items visit every node once, head to tail, and  *)
(* end on null; moving the iterator does not change the list.               *)
C33_CursorWraps ==
    /\ Called("next") =>
            /\ list = prev.list
            /\ cursor = TokenAt(list, PlaceOf(list, prev.cursor) + 1)
    /\ Called("prev") =>
            /\ list = prev.list
            /\ cursor = IF prev.cursor = NoToken
                        THEN TokenAt(list, ListLen(list))
                        ELSE TokenAt(list, PlaceOf(list, prev.cursor) - 1)
    /\ LET n == ListLen(list) IN
           /\ \A k \in 1..n : NextTimes(list, NoToken, k) \in LiveTokens(list)
           /\ \A j, k \in 1..n :
                  j # k => NextTimes(list, NoToken, j) # NextTimes(list, NoToken, k)
           /\ \A k \in 1..n :
                  PrevTimes(list, NoToken, n + 1 - k) = NextTimes(list, NoToken, k)
           /\ n > 0 => /\ NextTimes(list, NoToken, 1) = list.head
                       /\ NextTimes(list, NoToken, n) = list.tail
           /\ NextTimes(list, NoToken, n + 1) = NoToken
           /\ PrevTimes(list, NoToken, n + 1) = NoToken
           /\ n = Cardinality(LiveTokens(list))

(* next() took the iterator from the tail of a list of two or more to null *)
C33_Witness ==
    /\ Called("next")
    /\ prev.cursor # NoToken /\ prev.cursor = list.tail
    /\ ListLen(list) >= 2
    /\ cursor = NoToken

(* C34: remove() on a node removes that node and returns its item, keeps    *)
(* the order of the others, takes 1 off len() and leaves the iterator on    *)
(* the successor of the removed node, null if it was the tail; remove() on  *)
(* the null position returns None and changes nothing.                      *)
C34_CursorRemove ==
    Called("remove") =>
        IF prev.cursor = NoToken
        THEN last.ret = NoData /\ list = prev.list /\ cursor = NoToken
        ELSE /\ last.ret = ItemOf(prev.list, prev.cursor)
             /\ Unlinked(prev.list, prev.cursor)
             /\ cursor = TokenAt(prev.list, PlaceOf(prev.list, prev.cursor) + 1)

(* remove() took the middle node of a list of three and left the iterator  *)
(* on the tail.                                                            *)
C34_Witness ==
    /\ Called("remove")
    /\ ListLen(prev.list) = 3
    /\ PlaceOf(prev.list, prev.cursor) = 2
    /\ cursor = list.tail /\ cursor # list.head

(* C35: remove_raw(token) of a node of the list (head, tail, middle, sole)  *)
(* unlinks that node and returns its item; the others keep their order,     *)
(* len() is less by 1, head and tail are those of what remains, and every   *)
(* other token names the item it named.                                     *)
C35_RemoveRaw ==
    Called("remove_raw") =>
        /\ last.ret = ItemOf(prev.list, last.res[1])
        /\ Unlinked(prev.list, last.res[1])

(* remove_raw took the middle node of a list of three whose items differ   *)
C35_Witness ==
    /\ Called("remove_raw")
    /\ ListLen(prev.list) = 3
    /\ PlaceOf(prev.list, last.res[1]) = 2
    /\ ItemOf(prev.list, prev.list.head) # last.ret

(* C39: after any sequence of pushes, pops, iterator inserts and removes    *)
(* and remove_raw the links are well formed: head is None iff tail is None  *)
(* iff len() is 0; head has no prev and tail no next; a node's next has     *)
(* that node as its prev, and its prev has it as its next; the nodes        *)
(* reached from head by next are the occupied slots of the slab, and they   *)
(* are len() many.                                                          *)
C39_LinksWellFormed ==
    /\ (list.head = NoToken) <=> (list.tail = NoToken)
    /\ (list.head = NoToken) <=> (ListLen(list) = 0)
    /\ list.head # NoToken =>
            list.head \in LiveTokens(list) /\ GetNode(list, list.head).prev = NoToken
    /\ list.tail # NoToken =>
            list.tail \in LiveTokens(list) /\ GetNode(list, list.tail).next = NoToken
    /\ \A t \in LiveTokens(list) :
            LET n == GetNode(list, t).next
                p == GetNode(list, t).prev
            IN  /\ n # NoToken => n \in LiveTokens(list) /\ GetNode(list, n).prev = t
                /\ p # NoToken => p \in LiveTokens(list) /\ GetNode(list, p).next = t
                /\ n = NoToken => list.tail = t
                /\ p = NoToken => list.head = t
    /\ Range(ListTokens(list)) = LiveTokens(list)
    /\ Len(ListTokens(list)) = ListLen(list)
    /\ Cardinality(LiveTokens(list)) = ListLen(list)
    /\ cursor # NoToken => cursor \in LiveTokens(list)

(* An iterator on a node that is not the head inserted a node before it,   *)
(* in a slot of the slab that an earlier node had left.                    *)
C39_Witness ==
    /\ Called("insert_before")
    /\ prev.cursor # NoToken /\ prev.cursor # prev.list.head
    /\ last.token \in prev.issued
    /\ ListLen(list) >= 3
    /\ GetNode(list, cursor).prev = last.token


(* C36: is_in_indexer, is_in_eviction and is_deposit leave the record as it *)
(* was, and each returns the value the last set_* call of its flag stored,  *)
(* false when the flag was never set.                                       *)
C36_QueriesArePure ==
    Called("get_flags") =>
        /\ record = prev
        /\ last.ret = written[last.res[1]]

(* C37: set_in_indexer, set_in_eviction and set_deposit give the named bit  *)
(* the value passed and leave the other two bits, the reference count and   *)
(* the data as they were, also while the other thread is setting another    *)
(* flag: as long as no query has run since, every flag holds what its last  *)
(* set_* call stored.  A new record has no flag set, no reference and no    *)
(* data.                                                                    *)
C37_SetOneBit ==
    /\ Called("set_flags") =>
            /\ (last.res[1] \in record.flags) <=> last.res[2]
            /\ record.flags \ {last.res[1]} = prev.flags \ {last.res[1]}
            /\ record.refs = prev.refs /\ record.data = prev.data
    /\ \A f \in Flags \ wiped : (f \in record.flags) <=> written[f]
    /\ Called("new") => record.flags = {} /\ record.refs = 0 /\ record.data = NoData

(* A thread set a flag of a record that had another flag set, while the    *)
(* other thread was in a call that clears a third flag that is set.        *)
C37_Witness ==
    /\ Called("set_flags")
    /\ last.res[2]
    /\ prev.flags # {} /\ last.res[1] \notin prev.flags
    /\ \E th \in Threads :
            /\ th # last.token
            /\ pending[th].op = "set_flags"
            /\ pending[th].flag \in record.flags \ {last.res[1]}
            /\ ~pending[th].val
    /\ wiped = {}
    /\ Cardinality(record.flags) = 3


InEviction == {t \in Tokens : in_eviction[t]}

(* C38: between calls, a handle has IN_EVICTION set iff its Queue tag is    *)
(* not None iff it is linked in a segment, the one its tag names; len() is  *)
(* the number of handles with IN_EVICTION set, and is_empty() holds iff     *)
(* there is none.                                                           *)
C38_FlagTagLinkAgree ==
    /\ \A t \in Tokens :
            /\ in_eviction[t] <=> (queue[t] # "None")
            /\ (queue[t] # "None") <=> IsLinked(Lfu, t)
            /\ IsLinked(Lfu, t) => SegmentOf(Lfu, t) = queue[t]
    /\ LfuLen(Lfu) = Cardinality(InEviction)
    /\ LfuIsEmpty(Lfu) <=> (InEviction = {})

(* remove() took one handle out, its flag now clear, while two others stay *)
(* tracked and flagged, one of them in probation.                          *)
C38_Witness ==
    /\ Called("remove")
    /\ ~in_eviction[last.token]
    /\ Cardinality(InEviction) = 2
    /\ LfuLen(Lfu) = 2
    /\ \E t \in InEviction : queue[t] = "Probation"

SegmentWeight(e, from) ==
    IF from = "window" THEN e.window_weight ELSE e.protected_weight

SegmentCapacity(from) ==
    IF from = "window" THEN window_weight_capacity ELSE protected_weight_capacity

(* The `while weight > capacity` loop of segment `from` run on e: the rounds *)
(* it makes, and whether it comes to pop from the segment when it is empty.  *)
RECURSIVE OverflowRun(_, _, _)
OverflowRun(e, from, n) ==
    IF SegmentWeight(e, from) > SegmentCapacity(from)
    THEN IF e[from] = <<>>
         THEN [rounds |-> n, starved |-> TRUE]
         ELSE OverflowRun(Overflow(e, from), from, n + 1)
    ELSE [rounds |-> n, starved |-> FALSE]

(* The loop of segment `from`, started on e, makes no more rounds than the  *)
(* segment has entries and never pops from it empty.                        *)
LoopBounded(e, from) ==
    /\ ~OverflowRun(e, from, 0).starved
    /\ OverflowRun(e, from, 0).rounds <= Len(e[from])

(* C40: from every reachable state, the window loop of a push (or of a      *)
(* release of an untracked handle) and the protected loop of a release of a *)
(* probation handle make at most as many rounds as the segment has entries  *)
(* and never pop from an empty segment, whatever the weights; clear() ends  *)
(* after len() pops, each of which returns a handle.                        *)
C40_LoopsTerminate ==
    /\ \A t \in Tokens :
            /\ queue[t] = "None" => LoopBounded(LfuPushLink(Lfu, t), "window")
            /\ queue[t] = "Probation" => LoopBounded(LfuPromote(Lfu, t), "protected")
    /\ Len(LfuClear(Lfu).res) = LfuLen(Lfu)
    /\ NoToken \notin Range(LfuClear(Lfu).res)
    /\ LfuIsEmpty(LfuClear(Lfu).e)

(* A push whose loop made as many rounds as window had entries, two or     *)
(* more, the pushed handle being heavier than the window capacity.         *)
C40_Witness ==
    /\ Called("push")
    /\ weight[last.token] > window_weight_capacity
    /\ OverflowRun(LfuPushLink(prev, last.token), "window", 0).rounds
           = Len(prev.window) + 1
    /\ Len(prev.window) >= 1
    /\ window = <<>>

=============================================================================
